---- MODULE Spec2Model ----
(***************************************************************************)
(* A state-machine model of the hidrateapp request pipeline                *)
(* (src/full/hidrateapp/views.py, models.py): the object store, the        *)
(* grants attached to records, and the handlers of the class-based views.  *)
(***************************************************************************)
EXTENDS Integers, Sequences, FiniteSets, TLC

VARIABLES
    db,      \* db[cls]: the table of model class cls, objectId -> row
    acls,    \* the rows of the ACL table: <<user objectId, permission>>
    req,     \* the request handled last
    resp,    \* the response it got
    pc,      \* SpecRace: the position of each concurrent Sip create;
             \* SpecLoop: whether the handler is inside its for loop
    loc      \* SpecRace: what each concurrent request holds in memory;
             \* SpecDate: the string at hand; SpecSession: the sessions;
             \* SpecLoop: the loop index and the object in memory

vars == <<db, acls, req, resp, pc, loc>>

---------------------------------------------------------------------------
\* Bounds of the model.

\* how many accounts can exist
MaxUsers == 2
\* how many Bottle rows can exist
MaxBottles == 1
\* how many Sip rows can exist
MaxSips == 2
\* the dates of the current week that DayView.get creates a Day for
MaxDates == 1
\* the largest amount / total / streak a request body carries
MaxAmount == 2

---------------------------------------------------------------------------
\* Python and JSON values.  Every value is a record tagged by t, so that
\* Python's == between values of different types is plain inequality.

PyNone == [t |-> "null"]
PyInt(n) == [t |-> "int", v |-> n]
PyStr(s) == [t |-> "str", v |-> s]
\* the string an objectId is: the token that object_id_gen drew for row id
Token(id) == [t |-> "str", token |-> id]
\* a model instance held in an attribute (a resolved foreign key)
Instance(cls, id) == [t |-> "model", cls |-> cls, objectId |-> id]
\* a JSON object carrying a reference: its __type, its className, and the
\* other keys it has (fk maps each of them to its value)
Envelope(type, className, fk) ==
    [t |-> "dict", type |-> type, className |-> className, fk |-> fk]

\* request.hidrate_user is None
NoUser == 0

Perms == {"read", "write"}

---------------------------------------------------------------------------
\* The entity registry: the class attributes of the models.

Classes ==
    {"_User", "Bottle", "Location", "Day", "Sip", "UserHealthStats", "Glow",
     "Installation"}

class_name(cls) == cls

type_name(cls) == "Pointer"

\* The readable fields.  The model keeps, of each list, the identity, the
\* references and the scalars the handlers compute with.
full_fields(cls) ==
    CASE cls = "_User" -> {"objectId", "name", "goal"}
      [] cls = "Bottle" -> {"objectId", "capacity", "name", "user", "shouldUpdate"}
      [] cls = "Location" -> {"objectId", "altitude", "user"}
      [] cls = "Day" -> {"objectId", "user", "date", "totalAmount", "goal"}
      [] cls = "Sip" -> {"objectId", "amount", "day", "user"}
      [] cls = "UserHealthStats" ->
            {"objectId", "user", "goalMetCount", "volume", "streak"}
      [] cls = "Glow" -> {"name", "content", "id"}
      [] cls = "Installation" -> {}

\* updateable_fields with the identity among them
updateable_fields_with_objectId(cls) ==
    {"objectId"} \cup
    CASE cls = "_User" -> {"name", "goal"}
      [] cls = "Bottle" -> {"capacity", "name", "user", "should_updatedescription"}
      [] cls = "Location" -> {"altitude", "user"}
      [] cls = "Day" -> {"user", "date", "totalAmount", "goal"}
      [] cls = "Sip" -> {"amount", "day", "user"}
      [] cls = "UserHealthStats" -> {"streak"}
      [] cls = "Glow" -> {"name", "content", "user"}
      [] cls = "Installation" -> {"user", "deviceType"}

\* Bottle's tuple has no comma after 'should_update', so Python joins it to
\* 'description': neither shouldUpdate nor description is updateable.
updateable_fields(cls) ==
    CASE cls = "_User" -> {"name", "goal"}
      [] cls = "Bottle" -> {"capacity", "name", "user", "should_updatedescription"}
      [] cls = "Location" -> {"altitude", "user"}
      [] cls = "Day" -> {"user", "date", "totalAmount", "goal"}
      [] cls = "Sip" -> {"amount", "day", "user"}
      [] cls = "UserHealthStats" -> {"streak"}
      [] cls = "Glow" -> {"name", "content", "user"}
      [] cls = "Installation" -> {"user", "deviceType"}

\* Sip, UserHealthStats and Glow declare fk_object_fields, which nothing
\* reads: their fk_fields stay the mixin's empty tuple, as Installation's.
fk_fields(cls) ==
    IF cls \in {"_User", "Bottle", "Location", "Day"} THEN {"objectId"} ELSE {}

\* models.ForeignKey fields and the model they reference
ForeignKey(cls, field) ==
    CASE field = "user" /\ cls # "_User" -> "_User"
      [] field = "day" /\ cls = "Sip" -> "Day"
      [] OTHER -> "none"

\* the columns of a table (the model fields that are declared)
Columns(cls) ==
    CASE cls = "_User" -> full_fields(cls) \cup {"password"}
      [] cls = "Glow" -> full_fields(cls) \cup {"user"}
      [] cls = "Installation" -> {"objectId", "user", "deviceType"}
      [] OTHER -> full_fields(cls)

\* null=True columns
Nullable(cls, field) ==
    \/ cls = "_User" /\ field = "goal"
    \/ cls = "Day" /\ field = "goal"
    \/ cls \in {"Glow", "Installation"} /\ field = "user"

\* CharField columns; the other scalar columns are numeric
CharField(cls, field) == field \in {"name", "password", "deviceType"}

\* The attributes of Model(): the declared defaults.  A CharField without a
\* default is '', a column with neither is None, a foreign key is unset.
NewObject(cls, id) ==
    [f \in Columns(cls) |->
        CASE f \in {"objectId", "id"} -> Token(id)
          [] f \in {"totalAmount", "amount", "goalMetCount", "volume",
                    "streak"} -> PyInt(0)
          [] f = "shouldUpdate" -> PyInt(0)
          [] f \in {"altitude", "capacity"} -> PyInt(0)
          [] CharField(cls, f) -> PyStr("")
          [] OTHER -> PyNone]
      @@ [acl |-> {}]

---------------------------------------------------------------------------
\* Responses.  A raised APIException carries its JSON body; dispatch turns
\* it into the response.

\* the 'error' of a response: a message and, where the code formats one in,
\* the key it names
Err(msg, key) == [msg |-> msg, key |-> key]

Ok(body) == [code |-> 0, error |-> Err("", ""), body |-> body]

APIException(code, error) == [code |-> code, error |-> error, body |-> <<>>]

NoPermission == APIException(209, Err("no permission", ""))

LoginRequired == APIException(206, Err("login required", ""))

DoesNotExist == APIException(202, Err("does not exist", ""))

UnknownField(key) == APIException(202, Err("Unknown field", key))

InvalidType(key) == APIException(202, Err("Invalid type for", key))

Failed == APIException(202, Err("failed", ""))

\* an exception no handler catches leaves dispatch: Django answers 500
ServerError(exc) == [code |-> 500, error |-> Err("unhandled", exc), body |-> <<>>]

NoPassword == APIException(202, Err("no password", ""))

IsError(r) == r.code # 0

---------------------------------------------------------------------------
\* The serialization engine (SerializableMixin).

\* what a Python function call ends with: a value, or the exception raised
Return(val) == [exc |-> "", val |-> val]

Raise(exc) == [exc |-> exc, val |-> PyNone]

serialize_fk(cls, data) ==
    Envelope(type_name(cls), class_name(cls),
             [f \in fk_fields(cls) |-> Token(data.objectId)])

serialize_field(cls, obj, field) ==
    IF obj[field] = PyNone THEN PyNone
    ELSE IF ForeignKey(cls, field) # "none"
         THEN serialize_fk(ForeignKey(cls, field), obj[field])
         ELSE obj[field]

serialize_full(cls, obj) ==
    LET shown == {f \in full_fields(cls) : serialize_field(cls, obj, f) # PyNone}
        resp0 == [f \in shown |-> serialize_field(cls, obj, f)]
    IN  IF cls = "UserHealthStats"
        THEN resp0 @@ [user_id |-> Token(obj["user"].objectId)]
        ELSE resp0

\* unserialize_fk without the comparison of the remaining keys to fk_fields
unserialize_fk_any_keys(cls, data, table) ==
    IF data.t # "dict" THEN Raise("AttributeError")
    ELSE IF type_name(cls) # data.type THEN Raise("ValueError")
    ELSE IF class_name(cls) # data.className THEN Raise("ValueError")
    ELSE IF "objectId" \in DOMAIN data.fk
            /\ \E id \in DOMAIN table[cls] : data.fk["objectId"] = Token(id)
         THEN Return(Instance(cls,
                  CHOOSE id \in DOMAIN table[cls] : data.fk["objectId"] = Token(id)))
         ELSE Raise("ObjectDoesNotExist")

\* data.pop('__type'), data.pop('className'), the remaining keys, and the
\* lookup cls.objects.get(**data)
unserialize_fk(cls, data, table) ==
    IF data.t # "dict" THEN Raise("AttributeError")
    ELSE IF type_name(cls) # data.type THEN Raise("ValueError")
    ELSE IF class_name(cls) # data.className THEN Raise("ValueError")
    ELSE IF fk_fields(cls) # DOMAIN data.fk THEN Raise("ValueError")
    ELSE IF \E id \in DOMAIN table[cls] : data.fk["objectId"] = Token(id)
         THEN Return(Instance(cls,
                  CHOOSE id \in DOMAIN table[cls] : data.fk["objectId"] = Token(id)))
         ELSE Raise("ObjectDoesNotExist")

unserialize_field(cls, field, value, table) ==
    IF ForeignKey(cls, field) # "none"
    THEN unserialize_fk(ForeignKey(cls, field), value, table)
    ELSE Return(value)

\* getattr(self, key, None)
getattr(obj, key) ==
    IF key = "acl" THEN [t |-> "manager"]
    ELSE IF key \in DOMAIN obj THEN obj[key] ELSE PyNone

\* setattr(self, key, value)
setattr(obj, key, value) ==
    [f \in DOMAIN obj \cup {key} |-> IF f = key THEN value ELSE obj[f]]

\* SerializableMixin.update_value: the object after the call, or the
\* exception; a value equal to the attribute returns before any check.
update_value(cls, obj, key, value, table) ==
    IF getattr(obj, key) = value THEN Return(obj)
    ELSE IF key \notin updateable_fields(cls) THEN Raise("AttributeError")
    ELSE LET u == unserialize_field(cls, key, value, table)
         IN  IF u.exc # "" THEN Raise(u.exc)
             ELSE Return(setattr(obj, key, u.val))

---------------------------------------------------------------------------
\* The storage layer: what Model.save(), Model.delete() and the queries do.

\* the objectIds a table can hold
Ids(cls) ==
    CASE cls = "_User" -> 1..MaxUsers
      [] cls = "UserHealthStats" -> 1..MaxUsers
      [] cls = "Day" -> 1..(MaxUsers * MaxDates)
      [] cls = "Sip" -> 1..MaxSips
      [] OTHER -> 1..MaxBottles

Dates == 1..MaxDates

EmptyDb == [cls \in Classes |-> <<>>]

\* object_id_gen: a token no row of the table has
FreshIds(cls, table) == Ids(cls) \ DOMAIN table[cls]

\* the column values a row can hold: what get_prep_value and the NOT NULL
\* constraints let through
ColumnOk(cls, field, value) ==
    IF value = PyNone THEN Nullable(cls, field)
    ELSE IF ForeignKey(cls, field) # "none" THEN value.t = "model"
    ELSE IF CharField(cls, field) \/ field \in {"objectId", "id"} THEN value.t = "str"
    ELSE IF field = "content" THEN TRUE
    ELSE value.t = "int"

\* Day.Meta.unique_together = ('user', 'date')
UniqueOk(cls, id, obj, table) ==
    cls = "Day" =>
        \A other \in DOMAIN table[cls] \ {id} :
            ~(table[cls][other]["user"] = obj["user"]
              /\ table[cls][other]["date"] = obj["date"])

\* the attached grants of a row (the rows of the many-to-many table)
AclOf(cls, id, table) ==
    IF id \in DOMAIN table[cls] THEN table[cls][id].acl ELSE {}

\* Model.save(): writes every column of the in-memory object; raises when
\* a value does not fit its column.  The grants are rows of another table.
SaveOk(cls, id, obj, table) ==
    /\ \A f \in Columns(cls) : ColumnOk(cls, f, obj[f])
    /\ UniqueOk(cls, id, obj, table)

Save(cls, id, obj, table) ==
    LET row == [f \in Columns(cls) |-> obj[f]] @@ [acl |-> AclOf(cls, id, table)]
    IN  [table EXCEPT ![cls] =
            [i \in DOMAIN table[cls] \cup {id} |->
                IF i = id THEN row ELSE table[cls][i]]]

\* the rows deleted with row id of cls: on_delete=CASCADE from Sip.day
Cascade(cls, id, c, table) ==
    IF cls = "Day" /\ c = "Sip"
    THEN {i \in DOMAIN table[c] : table[c][i]["day"] = Instance("Day", id)}
    ELSE IF c = cls THEN {id} ELSE {}

Delete(cls, id, table) ==
    [c \in Classes |->
        [i \in DOMAIN table[c] \ Cascade(cls, id, c, table) |-> table[c][i]]]

\* obj.acl.set(grants), obj.acl.add(*grants)
AclSet(cls, id, grants, table) ==
    [table EXCEPT ![cls][id].acl = grants]

AclAdd(cls, id, grants, table) ==
    [table EXCEPT ![cls][id].acl = @ \cup grants]

\* Sum('amount') over a set of Sip rows, None for no row
RECURSIVE SumAmount(_, _)
SumAmount(ids, table) ==
    IF ids = {} THEN 0
    ELSE LET i == CHOOSE x \in ids : TRUE
         IN  table["Sip"][i]["amount"].v + SumAmount(ids \ {i}, table)

---------------------------------------------------------------------------
\* The ACL engine.

\* APIView.acls: the ACL rows of request.hidrate_user
self_acls(user, aclrows) ==
    IF user = NoUser THEN {} ELSE {a \in aclrows : a[1] = user}

\* obj.acl.filter(user=request.hidrate_user, permission=perm).exists()
acl_exists(obj, user, perm) == \E a \in obj.acl : a = <<user, perm>>

---------------------------------------------------------------------------
\* The views: the class attributes and the mixins each endpoint is built of.

object_class(view) ==
    CASE view \in {"UserView", "DetailUserView"} -> "_User"
      [] view \in {"BottleView", "DetailBottleView"} -> "Bottle"
      [] view \in {"LocationView", "DetailLocationView"} -> "Location"
      [] view \in {"DayView", "DetailDayView", "CalculateDayTotal"} -> "Day"
      [] view \in {"SipView", "DetailSipView"} -> "Sip"
      [] view \in {"UserHealthStatsView", "DetailUserHealthStats"} ->
            "UserHealthStats"
      [] view = "CreateGlow" -> "Glow"
      [] view \in {"InstallationView", "DetailInstallationView"} -> "Installation"

\* the views that list LoginRequiredMixin among their bases
LoginRequiredMixin(view) ==
    view \notin {"UserView", "LoginView", "InstallationView", "DetailInstallationView"}

\* the views that list SipMixin among their bases
SipMixin(view) == view \in {"SipView", "DetailSipView"}

\* The switches of the permission checks.  DetailInstallationView sets
\* put_access_check = False and an attribute spelt get_acess_check, which
\* nothing reads: its get_access_check stays the mixin's True.
get_access_check(view) == TRUE

put_access_check(view) == view # "DetailInstallationView"

delete_access_check(view) == TRUE

list_access_check(view) == TRUE

\* User.compute_recommended_goal
compute_recommended_goal == 2000

\* User.set_password: make_password(password), never the plain text
make_password(password) == [t |-> "str", v |-> password.v, hash |-> "pbkdf2"]

---------------------------------------------------------------------------
\* UpdateObjectFieldsMixin: the body is a JSON object, read in key order.

Keys(data) == {data[i][1] : i \in 1..Len(data)}

ValueOf(data, key) == data[CHOOSE i \in 1..Len(data) : data[i][1] = key][2]

Without(data, key) == SelectSeq(data, LAMBDA kv : kv[1] # key)

\* the for loop of update_object_fields from item i on: the object after
\* the last item, or the APIException of the first item that raises
RECURSIVE UpdateLoop(_, _, _, _, _)
UpdateLoop(cls, obj, data, i, table) ==
    IF i > Len(data) THEN [resp |-> Ok(<<>>), obj |-> obj]
    ELSE LET r == update_value(cls, obj, data[i][1], data[i][2], table)
         IN  IF r.exc \in {"AttributeError", "KeyError"}
             THEN [resp |-> UnknownField(data[i][1]), obj |-> obj]
             ELSE IF r.exc \in {"ValueError", "ObjectDoesNotExist"}
             THEN [resp |-> InvalidType(data[i][1]), obj |-> obj]
             ELSE UpdateLoop(cls, r.val, data, i + 1, table)

\* UpdateObjectFieldsMixin.update_object_fields: the loop, then obj.save()
UpdateObjectFieldsMixin_update_object_fields(cls, id, obj, data, table) ==
    LET l == UpdateLoop(cls, obj, data, 1, table)
    IN  IF l.resp.code # 0 THEN [resp |-> l.resp, obj |-> obj, db |-> table]
        ELSE IF ~SaveOk(cls, id, l.obj, table)
        THEN [resp |-> Failed, obj |-> obj, db |-> table]
        ELSE [resp |-> Ok(<<>>), obj |-> l.obj, db |-> Save(cls, id, l.obj, table)]

\* the override of UserView (the password is popped and hashed first); the
\* override of DetailUserHealthStats only stamps statDate, a column the
\* model leaves out
update_object_fields(view, cls, id, obj, data, table) ==
    IF view = "UserView"
    THEN IF "password" \notin Keys(data)
         THEN [resp |-> NoPassword, obj |-> obj, db |-> table]
         ELSE UpdateObjectFieldsMixin_update_object_fields(cls, id,
                  setattr(obj, "password", make_password(ValueOf(data, "password"))),
                  Without(data, "password"), table)
    ELSE UpdateObjectFieldsMixin_update_object_fields(cls, id, obj, data, table)

---------------------------------------------------------------------------
\* Aggregate recompute (models.py) and the update_other hooks (views.py).

SipsOfDay(day, table) ==
    {i \in DOMAIN table["Sip"] : table["Sip"][i]["day"] = Instance("Day", day)}

SipsOfUser(user, table) ==
    {i \in DOMAIN table["Sip"] : table["Sip"][i]["user"] = Instance("_User", user)}

\* user.day_set.filter(totalAmount__gte=F('goal')): a NULL goal compares to
\* nothing
GoalMetDays(user, table) ==
    {d \in DOMAIN table["Day"] :
        /\ table["Day"][d]["user"] = Instance("_User", user)
        /\ table["Day"][d]["goal"] # PyNone
        /\ table["Day"][d]["totalAmount"].v >= table["Day"][d]["goal"].v}

\* Day.update_volume_stats on the in-memory Day obj: the sum of the
\* persisted sips, then self.save()
Day_update_volume_stats(id, obj, table) ==
    Save("Day", id,
         [obj EXCEPT !["totalAmount"] = PyInt(SumAmount(SipsOfDay(id, table), table))],
         table)

\* UserHealthStats.update_volume_stats
UserHealthStats_update_volume_stats(id, obj, table) ==
    LET user == obj["user"].objectId
    IN  Save("UserHealthStats", id,
             [obj EXCEPT !["volume"] = PyInt(SumAmount(SipsOfUser(user, table), table)),
                         !["goalMetCount"] = PyInt(Cardinality(GoalMetDays(user, table)))],
             table)

\* for stat in user.userhealthstats_set.iterator(): stat.update_volume_stats()
RECURSIVE UpdateStats(_, _)
UpdateStats(stats, table) ==
    IF stats = {} THEN table
    ELSE LET h == CHOOSE x \in stats : TRUE
         IN  UpdateStats(stats \ {h},
                 UserHealthStats_update_volume_stats(h, table["UserHealthStats"][h], table))

StatsOfUser(user, table) ==
    {h \in DOMAIN table["UserHealthStats"] :
        table["UserHealthStats"][h]["user"] = Instance("_User", user)}

\* SipMixin.update_other refreshing the stat records ahead of the Day
SipMixin_update_other_stats_first(obj, table) ==
    LET day == obj["day"].objectId
        t1 == UpdateStats(StatsOfUser(obj["user"].objectId, table), table)
    IN  Day_update_volume_stats(day, t1["Day"][day], t1)

\* SipMixin.update_other after super().update_other(): self.object is the
\* in-memory Sip, whose day and user are fetched from the tables
SipMixin_update_other(obj, table) ==
    LET day == obj["day"].objectId
        t1 == Day_update_volume_stats(day, table["Day"][day], table)
    IN  UpdateStats(StatsOfUser(obj["user"].objectId, t1), t1)

\* CreateObjectMixin.update_other attaching the read grant alone
CreateObjectMixin_update_other_read_only(user, cls, id, table, aclrows) ==
    AclSet(cls, id, {a \in self_acls(user, aclrows) : a[2] = "read"}, table)

\* CreateObjectMixin.update_other: the grants of the requesting principal
\* replace the grants of the object
CreateObjectMixin_update_other(user, cls, id, table, aclrows) ==
    AclSet(cls, id, self_acls(user, aclrows), table)

\* UserView.update_other: the new account becomes request.hidrate_user, its
\* two ACL rows are created, then its UserHealthStats with both attached
UserView_update_other(id, table, aclrows) ==
    LET rows == aclrows \cup {<<id, perm>> : perm \in Perms}
        h == CHOOSE x \in FreshIds("UserHealthStats", table) : TRUE
        stat == [NewObject("UserHealthStats", h) EXCEPT
                    !["user"] = Instance("_User", id)]
        t1 == Save("UserHealthStats", h, stat, table)
        t2 == AclSet("UserHealthStats", h, self_acls(id, rows), t1)
    IN  [db |-> CreateObjectMixin_update_other(id, "_User", id, t2, rows),
         acls |-> rows]

\* DetailUserView.update_other: the goals of the account's recent days the
\* requester may write; recent are the dates within the last 12 hours
DetailUserView_update_other(user, id, obj, recent, table) ==
    LET hit == {d \in DOMAIN table["Day"] :
                    /\ table["Day"][d]["user"] = Instance("_User", id)
                    /\ acl_exists(table["Day"][d], user, "write")
                    /\ table["Day"][d]["date"].v \in recent}
        goal == IF obj["goal"] \in {PyNone, PyInt(0)}
                THEN PyInt(compute_recommended_goal) ELSE obj["goal"]
    IN  [table EXCEPT !["Day"] =
            [d \in DOMAIN table["Day"] |->
                IF d \in hit THEN [table["Day"][d] EXCEPT !["goal"] = goal]
                ELSE table["Day"][d]]]

\* self.update_other() as the method resolution order of the view gives it,
\* for a POST (create) and for a PUT or DELETE of a detail view
update_other(view, user, cls, id, obj, recent, table, aclrows) ==
    CASE view = "UserView" -> UserView_update_other(id, table, aclrows)
      [] view = "SipView" ->
            [db |-> SipMixin_update_other(obj,
                        CreateObjectMixin_update_other(user, cls, id, table, aclrows)),
             acls |-> aclrows]
      [] view = "DetailSipView" ->
            [db |-> SipMixin_update_other(obj, table), acls |-> aclrows]
      [] view = "DetailUserView" ->
            [db |-> DetailUserView_update_other(user, id, obj, recent, table),
             acls |-> aclrows]
      [] view \in {"BottleView", "LocationView", "InstallationView", "CreateGlow"} ->
            [db |-> CreateObjectMixin_update_other(user, cls, id, table, aclrows),
             acls |-> aclrows]
      [] OTHER -> [db |-> table, acls |-> aclrows]

---------------------------------------------------------------------------
\* The handlers.  Each gives the outcome of a request: the response and the
\* tables after it.

Outcome(r, table, aclrows) == [resp |-> r, db |-> table, acls |-> aclrows]

\* LoginRequiredMixin.access_check
access_check(view, user) ==
    IF LoginRequiredMixin(view) /\ user = NoUser THEN LoginRequired ELSE Ok(<<>>)

\* get_get_response: the full serialization; CalculateDayTotal overrides it
get_get_response(view, cls, obj) ==
    IF view = "CalculateDayTotal"
    THEN [dayTotal |-> serialize_field(cls, obj, "totalAmount"),
          dayId |-> serialize_field(cls, obj, "objectId")]
    ELSE serialize_full(cls, obj)

\* GetObjectMixin.get deciding by ownership in place of the attached grants
GetObjectMixin_get_by_owner(view, user, cls, obj) ==
    IF get_access_check(view)
       /\ ~(IF cls = "_User" THEN obj["objectId"] = Token(user)
            ELSE obj["user"] = Instance("_User", user))
    THEN NoPermission
    ELSE Ok(get_get_response(view, cls, obj))

\* GetObjectMixin.get
GetObjectMixin_get(view, user, cls, obj) ==
    IF get_access_check(view) /\ ~acl_exists(obj, user, "read")
    THEN NoPermission
    ELSE Ok(get_get_response(view, cls, obj))

\* CreateObjectMixin.post on the fresh object: update_object_fields, then
\* update_other, then the response
CreateObjectMixin_post(view, user, cls, id, data, table, aclrows) ==
    LET u == update_object_fields(view, cls, id, NewObject(cls, id), data, table)
        o == update_other(view, user, cls, id, u.obj, {}, u.db, aclrows)
    IN  IF u.resp.code # 0 THEN Outcome(u.resp, table, aclrows)
        ELSE Outcome(Ok([objectId |-> serialize_field(cls, u.obj, "objectId")]),
                     o.db, o.acls)

\* UpdateObjectMixin.put
UpdateObjectMixin_put(view, user, cls, id, data, recent, table, aclrows) ==
    LET obj == table[cls][id]
        u == update_object_fields(view, cls, id, obj, data, table)
        o == update_other(view, user, cls, id, u.obj, recent, u.db, aclrows)
    IN  IF put_access_check(view) /\ ~acl_exists(obj, user, "write")
        THEN Outcome(NoPermission, table, aclrows)
        ELSE IF u.resp.code # 0 THEN Outcome(u.resp, table, aclrows)
        ELSE Outcome(Ok([objectId |-> serialize_field(cls, u.obj, "objectId")]),
                     o.db, o.acls)

\* DeleteObjectMixin.delete with the permission check after the deletion
DeleteObjectMixin_delete_then_check(view, user, cls, id, table, aclrows) ==
    LET obj == table[cls][id]
        o == update_other(view, user, cls, id, obj, {}, Delete(cls, id, table), aclrows)
    IN  IF delete_access_check(view) /\ ~acl_exists(obj, user, "write")
        THEN Outcome(NoPermission, o.db, o.acls)
        ELSE Outcome(Ok(<<>>), o.db, o.acls)

\* DeleteObjectMixin.delete
DeleteObjectMixin_delete(view, user, cls, id, table, aclrows) ==
    LET obj == table[cls][id]
        o == update_other(view, user, cls, id, obj, {}, Delete(cls, id, table), aclrows)
    IN  IF delete_access_check(view) /\ ~acl_exists(obj, user, "write")
        THEN Outcome(NoPermission, table, aclrows)
        ELSE Outcome(Ok(<<>>), o.db, o.acls)

\* APIView.dispatch of a request to a detail view: access_check, then
\* setup_api (ObjectIDMixin.get_object), then the handler of the method
DispatchDetail(r, table, aclrows) ==
    LET cls == object_class(r.view)
        a == access_check(r.view, r.user)
    IN  IF a.code # 0 THEN Outcome(a, table, aclrows)
        ELSE IF r.id \notin DOMAIN table[cls] THEN Outcome(DoesNotExist, table, aclrows)
        ELSE CASE r.method = "get" ->
                    Outcome(GetObjectMixin_get(r.view, r.user, cls, table[cls][r.id]),
                            table, aclrows)
               [] r.method = "put" ->
                    UpdateObjectMixin_put(r.view, r.user, cls, r.id, r.data, r.recent,
                                          table, aclrows)
               [] r.method = "delete" ->
                    DeleteObjectMixin_delete(r.view, r.user, cls, r.id, table, aclrows)

\* APIView.dispatch of a POST to a create view; setup_api instantiates the
\* model, whose objectId default draws the token r.id
DispatchCreate(r, table, aclrows) ==
    LET cls == object_class(r.view)
        a == access_check(r.view, r.user)
    IN  IF a.code # 0 THEN Outcome(a, table, aclrows)
        ELSE CreateObjectMixin_post(r.view, r.user, cls, r.id, r.data, table, aclrows)

---------------------------------------------------------------------------
\* The list views: ListObjectMixin and BatchObjectFilterMixin.  A queryset
\* is the set of objectIds it selects; a query parameter is a set holding
\* the value given, empty when the parameter is absent.

InvalidWhere == APIException(202, Err("invalid where", ""))

InvalidOrder == APIException(202, Err("invalid order", ""))

InvalidLimit == APIException(202, Err("invalid limit", ""))

Given(param) == CHOOSE x \in param : TRUE

\* the dict q of filter_where from item i on, or the APIException raised
RECURSIVE WhereLoop(_, _, _, _, _)
WhereLoop(cls, where, i, q, table) ==
    IF i > Len(where) THEN [resp |-> Ok(<<>>), q |-> q]
    ELSE IF where[i][1] \notin full_fields(cls) THEN [resp |-> InvalidWhere, q |-> q]
    ELSE LET u == unserialize_field(cls, where[i][1], where[i][2], table)
         IN  IF u.exc \in {"ValueError", "ValidationError", "ObjectDoesNotExist"}
             THEN [resp |-> InvalidWhere, q |-> q]
             ELSE IF u.exc # "" THEN [resp |-> ServerError(u.exc), q |-> q]
             ELSE WhereLoop(cls, where, i + 1,
                            [k \in DOMAIN q \cup {where[i][1]} |->
                                IF k = where[i][1] THEN u.val ELSE q[k]],
                            table)

\* objects.filter(**q): every predicate holds of the row
Matches(row, q) == \A k \in DOMAIN q : row[k] = q[k]

\* BatchObjectFilterMixin.filter_where
BatchObjectFilterMixin_filter_where(cls, objects, where, table) ==
    IF where = {} THEN [resp |-> Ok(<<>>), objects |-> objects]
    ELSE LET l == WhereLoop(cls, Given(where), 1, <<>>, table)
         IN  IF l.resp.code # 0 THEN [resp |-> l.resp, objects |-> {}]
             ELSE [resp |-> Ok(<<>>),
                   objects |-> {i \in objects : Matches(table[cls][i], l.q)}]

\* Classes.UserHealthStats.filter_where: only where['user_id'] is read, a
\* missing key (KeyError) is passed over
UserHealthStats_filter_where(cls, objects, where, table) ==
    IF where = {} THEN [resp |-> Ok(<<>>), objects |-> objects]
    ELSE IF "user_id" \notin Keys(Given(where))
    THEN [resp |-> Ok(<<>>), objects |-> objects]
    ELSE [resp |-> Ok(<<>>),
          objects |-> {i \in objects :
                          Token(table[cls][i]["user"].objectId)
                              = ValueOf(Given(where), "user_id")}]

filter_where(view, cls, objects, where, table) ==
    IF view = "UserHealthStatsView"
    THEN UserHealthStats_filter_where(cls, objects, where, table)
    ELSE BatchObjectFilterMixin_filter_where(cls, objects, where, table)

\* An order string is the sequence of its parts: "-" or a name.
\* order[1:] if order.startswith('-') else order
real_order(order) ==
    IF Len(order) > 0 /\ order[1] = "-" THEN Tail(order) ELSE order

\* the number a row sorts by: a foreign key sorts by the key it holds
SortKey(row, field) ==
    CASE field = "objectId" -> row[field].token
      [] row[field].t = "model" -> row[field].objectId
      [] row[field].t = "int" -> row[field].v
      [] OTHER -> 0

\* BatchObjectFilterMixin.filter_order: the field and direction to sort by,
\* none when no order is given
filter_order(cls, order) ==
    IF order = {} THEN [resp |-> Ok(<<>>), by |-> <<>>]
    ELSE LET r == real_order(Given(order))
         IN  IF ~(Len(r) = 1 /\ r[1] \in full_fields(cls))
             THEN [resp |-> InvalidOrder, by |-> <<>>]
             ELSE [resp |-> Ok(<<>>), by |-> Given(order)]

\* the rows of a queryset in an order the database may return them in:
\* sorted by the order_by field (descending after "-"), rows that tie and
\* rows of an unordered query in any order
Orderings(cls, objects, by, table) ==
    LET n == Cardinality(objects)
        key(i) == SortKey(table[cls][i], by[Len(by)])
    IN  {s \in [1..n -> objects] :
            /\ \A i, j \in 1..n : i # j => s[i] # s[j]
            /\ by # <<>> =>
                 \A i, j \in 1..n : i < j =>
                    IF Len(by) = 2 THEN key(s[i]) >= key(s[j])
                    ELSE key(s[i]) <= key(s[j])}

\* A limit string is the sequence of its characters.
Digits == {"0", "1", "2", "3"}

DigitValue(c) == CASE c = "0" -> 0 [] c = "1" -> 1 [] c = "2" -> 2 [] c = "3" -> 3

RECURSIVE Decimal(_)
Decimal(str) ==
    IF str = <<>> THEN 0
    ELSE 10 * Decimal(SubSeq(str, 1, Len(str) - 1)) + DigitValue(str[Len(str)])

\* int(limit): an optional sign and at least one digit, else ValueError
int(str) ==
    LET signed == Len(str) > 0 /\ str[1] \in {"-", "+"}
        digits == IF signed THEN Tail(str) ELSE str
    IN  IF digits = <<>> \/ \E i \in 1..Len(digits) : digits[i] \notin Digits
        THEN Raise("ValueError")
        ELSE Return(IF signed /\ str[1] = "-" THEN 0 - Decimal(digits)
                    ELSE Decimal(digits))

\* BatchObjectFilterMixin.filter_limit on the ordered rows: objects[:limit]
filter_limit(rows, limit) ==
    IF limit = {} THEN [resp |-> Ok(<<>>), rows |-> rows]
    ELSE LET n == int(Given(limit))
         IN  IF n.exc # "" \/ n.val <= 0 THEN [resp |-> InvalidLimit, rows |-> <<>>]
             ELSE [resp |-> Ok(<<>>),
                   rows |-> SubSeq(rows, 1, IF n.val < Len(rows) THEN n.val ELSE Len(rows))]

\* the set of the elements of a sequence
Range(seq) == {seq[i] : i \in 1..Len(seq)}

\* BatchObjectFilterMixin.get_objects slicing the rows ahead of ordering them
get_objects_limit_first(view, cls, objects, filter, table) ==
    LET w == filter_where(view, cls, objects, filter.where, table)
        o == filter_order(cls, filter.order)
    IN  IF w.resp.code # 0 THEN {w.resp}
        ELSE IF o.resp.code # 0 THEN {o.resp}
        ELSE UNION {LET l == filter_limit(rows, filter.limit)
                    IN  IF l.resp.code # 0 THEN {l.resp}
                        ELSE {Ok([k \in 1..Len(s) |-> serialize_full(cls, table[cls][s[k]])])
                              : s \in Orderings(cls, Range(l.rows), o.by, table)}
                    : rows \in Orderings(cls, w.objects, <<>>, table)}

\* BatchObjectFilterMixin.get_objects and get_get_response: the responses
\* the request can get, one for each order the database may return
get_objects(view, cls, objects, filter, table) ==
    LET w == filter_where(view, cls, objects, filter.where, table)
        o == filter_order(cls, filter.order)
    IN  IF w.resp.code # 0 THEN {w.resp}
        ELSE IF o.resp.code # 0 THEN {o.resp}
        ELSE {LET l == filter_limit(rows, filter.limit)
              IN  IF l.resp.code # 0 THEN l.resp
                  ELSE Ok([k \in 1..Len(l.rows) |->
                              serialize_full(cls, table[cls][l.rows[k]])])
              : rows \in Orderings(cls, w.objects, o.by, table)}

\* ListObjectMixin.get: the rows the principal holds a read grant on
ListObjectMixin_get(view, user, cls, filter, table) ==
    LET objects ==
            IF list_access_check(view) /\ user # NoUser
            THEN {i \in DOMAIN table[cls] : acl_exists(table[cls][i], user, "read")}
            ELSE DOMAIN table[cls]
    IN  get_objects(view, cls, objects, filter, table)

\* Day.objects.bulk_create(batch_days, ignore_conflicts=True) from date on:
\* a Day of the user for every date of the week that has none
RECURSIVE BulkCreateDays(_, _, _)
BulkCreateDays(user, date, table) ==
    IF date > MaxDates THEN table
    ELSE LET goal == table["_User"][user]["goal"]
             day == [NewObject("Day", 0) EXCEPT
                        !["user"] = Instance("_User", user),
                        !["date"] = PyInt(date),
                        !["goal"] = IF goal \in {PyNone, PyInt(0)}
                                    THEN PyInt(compute_recommended_goal) ELSE goal]
             free == FreshIds("Day", table)
             id == CHOOSE i \in free : \A j \in free : i <= j
         IN  IF free = {} \/ ~UniqueOk("Day", 0, day, table)
             THEN BulkCreateDays(user, date + 1, table)
             ELSE BulkCreateDays(user, date + 1,
                      Save("Day", id, [day EXCEPT !["objectId"] = Token(id)], table))

\* DayView.get before super().get(): the days of the week are created, and
\* the principal's grants are added to each of its days that has none of them
DayView_get(user, table, aclrows) ==
    LET t1 == BulkCreateDays(user, 1, table)
        bare == {d \in DOMAIN t1["Day"] :
                    /\ t1["Day"][d]["user"] = Instance("_User", user)
                    /\ ~\E a \in t1["Day"][d].acl : a[1] = user}
    IN  [t1 EXCEPT !["Day"] =
            [d \in DOMAIN t1["Day"] |->
                IF d \in bare
                THEN [t1["Day"][d] EXCEPT !.acl = @ \cup self_acls(user, aclrows)]
                ELSE t1["Day"][d]]]

\* APIView.dispatch of a GET to a list view: access_check, then setup_api
\* (self.filter = request.GET), then get; the outcomes the request can have
DispatchList(r, table, aclrows) ==
    LET cls == object_class(r.view)
        a == access_check(r.view, r.user)
        t1 == IF r.view = "DayView" THEN DayView_get(r.user, table, aclrows) ELSE table
    IN  IF a.code # 0 THEN {Outcome(a, table, aclrows)}
        ELSE {Outcome(x, t1, aclrows) :
                x \in ListObjectMixin_get(r.view, r.user, cls, r.filter, t1)}

---------------------------------------------------------------------------
\* Requests and the actions: one action per handler.

\* a Pointer envelope as a client writes it
Pointer(className, id) ==
    Envelope("Pointer", className, [objectId |-> Token(id)])

\* the principal the session of a request resolves to: an account or None
Principals == DOMAIN db["_User"] \cup {NoUser}

\* request.GET of a request with no query string
NoFilter == [where |-> {}, order |-> {}, limit |-> {}]

NoRequest ==
    [method |-> "none", view |-> "none", user |-> NoUser, id |-> 0, data |-> <<>>,
     recent |-> {}, filter |-> NoFilter]

Request(method, view, user, id, data, recent) ==
    [method |-> method, view |-> view, user |-> user, id |-> id, data |-> data,
     recent |-> recent, filter |-> NoFilter]

\* the token object_id_gen returns: any the table does not hold (the model
\* takes the least, the tokens being interchangeable)
NewId(cls) == CHOOSE id \in FreshIds(cls, db) : \A j \in FreshIds(cls, db) : id <= j

Respond(r, o) ==
    /\ req' = r
    /\ resp' = o.resp
    /\ db' = o.db
    /\ acls' = o.acls
    /\ UNCHANGED <<pc, loc>>

\* POST to a create view (UserView, BottleView, LocationView, SipView)
Post(view, user, data) ==
    /\ FreshIds(object_class(view), db) # {}
    /\ LET r == Request("post", view, user, NewId(object_class(view)), data, {})
       IN  Respond(r, DispatchCreate(r, db, acls))

\* GET of a detail view, or POST to calculatedaytotal
Get(view, user, id) ==
    LET r == Request("get", view, user, id, <<>>, {})
    IN  Respond(r, DispatchDetail(r, db, acls))

\* PUT of a detail view
Put(view, user, id, data, recent) ==
    LET r == Request("put", view, user, id, data, recent)
    IN  Respond(r, DispatchDetail(r, db, acls))

\* DELETE of a detail view
DeleteRequest(view, user, id) ==
    LET r == Request("delete", view, user, id, <<>>, {})
    IN  Respond(r, DispatchDetail(r, db, acls))

\* GET of a list view
List(view, user, filter) ==
    LET r == [Request("get", view, user, 0, <<>>, {}) EXCEPT !.filter = filter]
    IN  \E o \in DispatchList(r, db, acls) : Respond(r, o)

Init ==
    /\ db = EmptyDb
    /\ acls = {}
    /\ req = NoRequest
    /\ resp = Ok(<<>>)
    /\ pc = <<>>
    /\ loc = <<>>

---------------------------------------------------------------------------
\* Spec: accounts, bottles and days, every verb of the detail views.

Amounts == {PyInt(a) : a \in 1..MaxAmount}

\* the accounts: the principals of the requests to views that require login
Accounts == DOMAIN db["_User"]

\* an account is created with a goal, which its days take over
AccountBody == <<<<"goal", PyInt(MaxAmount)>>, <<"password", PyStr("pw")>>>>

UserBodies == {AccountBody, <<<<"name", PyStr("a")>>>>}

\* a bottle is created for any account, not only for the one that asks
BottleBodies ==
    {<<<<"name", PyStr("a")>>, <<"user", Pointer("_User", u)>>>> : u \in Ids("_User")}

\* an update sets the name or the account, or names another identity
BottleUpdates ==
    {<<<<"name", PyStr("b")>>>>, <<<<"objectId", Token(MaxBottles + 1)>>>>}
       \cup {<<<<"user", Pointer("_User", u)>>>> : u \in Ids("_User")}

DetailViews == {"DetailUserView", "DetailBottleView", "DetailDayView", "CalculateDayTotal"}

CreateUser == \E user \in Principals, data \in UserBodies : Post("UserView", user, data)

CreateBottle == \E user \in Principals, data \in BottleBodies : Post("BottleView", user, data)

ListDays == \E user \in Accounts : List("DayView", user, NoFilter)

GetDetail ==
    \E view \in DetailViews, user \in Principals :
        \E id \in Ids(object_class(view)) : Get(view, user, id)

PutBottle ==
    \E user \in Principals, id \in Ids("Bottle"), data \in BottleUpdates :
        Put("DetailBottleView", user, id, data, {})

PutUser ==
    \E user \in Principals, id \in Ids("_User") :
        Put("DetailUserView", user, id, <<<<"name", PyStr("b")>>>>, Dates)

DeleteBottle ==
    \E user \in Principals, id \in Ids("Bottle") :
        DeleteRequest("DetailBottleView", user, id)

Next ==
    CreateUser \/ CreateBottle \/ ListDays \/ GetDetail \/ PutBottle \/ PutUser
      \/ DeleteBottle

Spec == Init /\ [][Next]_vars

\* C1: a GET of a detail view by principal P on record R returns R's
\* serialization if and only if the grant (P, read) is attached to R, and
\* answers 'no permission' (209) otherwise, whoever R's user field names.
C1_ReadIffGrant ==
    (/\ req.method = "get"
     /\ req.view \in DetailViews
     /\ req.user # NoUser
     /\ req.id \in DOMAIN db[object_class(req.view)]) =>
        LET cls == object_class(req.view)
            row == db[cls][req.id]
        IN  IF <<req.user, "read">> \in row.acl
            THEN /\ resp.code = 0
                 /\ resp.body =
                      IF req.view = "CalculateDayTotal"
                      THEN [dayTotal |-> row["totalAmount"], dayId |-> Token(req.id)]
                      ELSE serialize_full(cls, row)
            ELSE resp = NoPermission

\* C1 witness: the account a bottle's user field names reads the bottle
\* without a grant on it and is refused.
C1_OwnerRefused ==
    /\ req.method = "get"
    /\ req.view = "DetailBottleView"
    /\ req.id \in DOMAIN db["Bottle"]
    /\ db["Bottle"][req.id]["user"] = Instance("_User", req.user)
    /\ <<req.user, "read">> \notin db["Bottle"][req.id].acl
    /\ resp = NoPermission

\* C4: after a successful create the creating principal (the new account
\* itself for UserView, the requester otherwise) holds the read and the
\* write grant on the new record, and a new account's two ACL rows exist.
C4_CreatorHoldsGrants ==
    (req.method = "post" /\ resp.code = 0) =>
        LET cls == object_class(req.view)
            creator == IF req.view = "UserView" THEN req.id ELSE req.user
        IN  /\ req.id \in DOMAIN db[cls]
            /\ creator # NoUser
            /\ {<<creator, perm>> : perm \in Perms} \subseteq db[cls][req.id].acl
            /\ req.view = "UserView" => {<<creator, perm>> : perm \in Perms} \subseteq acls

\* C4 witness: a bottle created for another account carries the grants of
\* the account that created it.
C4_BottleCreated ==
    /\ req.method = "post"
    /\ req.view = "BottleView"
    /\ resp.code = 0
    /\ db["Bottle"][req.id]["user"] # Instance("_User", req.user)
    /\ db["Bottle"][req.id].acl = {<<req.user, perm>> : perm \in Perms}

\* C19: in every step the identities of an entity type stay pairwise
\* different, and a record that is there before and after the step has the
\* identity it had.
C19_IdentityFixed ==
    [][\A cls \in Classes :
          /\ \A i, j \in DOMAIN db'[cls] :
                i # j => db'[cls][i]["objectId"] # db'[cls][j]["objectId"]
          /\ \A i \in DOMAIN db[cls] \cap DOMAIN db'[cls] :
                db'[cls][i]["objectId"] = db[cls][i]["objectId"]
      ]_vars

\* C19 witness: an update by a principal with the write grant named another
\* identity for the bottle; it was refused and the bottle has its own.
C19_IdentityKept ==
    /\ req.method = "put"
    /\ req.view = "DetailBottleView"
    /\ req.data = <<<<"objectId", Token(MaxBottles + 1)>>>>
    /\ req.id \in DOMAIN db["Bottle"]
    /\ <<req.user, "write">> \in db["Bottle"][req.id].acl
    /\ resp = UnknownField("objectId")
    /\ db["Bottle"][req.id]["objectId"] = Token(req.id)

---------------------------------------------------------------------------
\* SpecUpdate: the bodies of a Bottle create and update, made of valid and
\* invalid items in either order.

\* the items of a body: valid fields; an undeclared key, with a value and
\* with null; the identity, equal to the row's and not; a Pointer of the
\* wrong class and one to no account; a string for a numeric column
ValidItems ==
    {<<"name", PyStr("b")>>, <<"capacity", PyInt(1)>>}
      \cup {<<"user", Pointer("_User", u)>> : u \in Ids("_User")}

InvalidItems ==
    {<<"bogus", PyInt(1)>>, <<"bogus", PyNone>>,
     <<"objectId", Token(1)>>, <<"objectId", Token(MaxBottles + 1)>>,
     <<"user", Pointer("Bottle", 1)>>, <<"user", Pointer("_User", MaxUsers + 1)>>,
     <<"capacity", PyStr("x")>>}

Items == ValidItems \cup InvalidItems

RichBodies ==
    {<<x>> : x \in Items}
      \cup {b \in {<<x, y>> : x \in Items, y \in Items} : b[1][1] # b[2][1]}

CreateOwner == Post("UserView", NoUser, AccountBody)

\* the identity of a row is drawn when the row is constructed, after the
\* request was made: no create body names it
CreateBottleRich ==
    \E user \in Accounts :
        \E data \in {b \in RichBodies : \A i \in 1..Len(b) : b[i][1] # "objectId"} :
            Post("BottleView", user, data)

PutBottleRich ==
    \E user \in Accounts, id \in Ids("Bottle"), data \in RichBodies :
        Put("DetailBottleView", user, id, data, {})

NextUpdate == CreateOwner \/ CreateBottleRich \/ PutBottleRich

SpecUpdate == Init /\ [][NextUpdate]_vars

\* the request of this step is a create, or an update by a principal that
\* holds the write grant on the row it names
Mutation ==
    /\ req'.view \in {"BottleView", "DetailBottleView"}
    /\ req'.method \in {"post", "put"}
    /\ req'.user # NoUser
    /\ req'.method = "put" =>
          /\ req'.id \in DOMAIN db["Bottle"]
          /\ <<req'.user, "write">> \in db["Bottle"][req'.id].acl

\* the object update_value is called on
Target == IF req'.method = "put" THEN db["Bottle"][req'.id] ELSE NewObject("Bottle", req'.id)

\* a body item that is a mutable field with a value of its type that
\* resolves
ItemValid(kv) ==
    /\ kv[1] \in updateable_fields("Bottle")
    /\ IF kv[1] = "user" THEN unserialize_fk("_User", kv[2], db).exc = ""
       ELSE ColumnOk("Bottle", kv[1], kv[2])

\* C5: an update (or create) whose body holds exactly one invalid item among
\* valid ones, in any key order, changes nothing that is persisted and its
\* error names the invalid field.
C5_AtomicUpdate ==
    [][(/\ Mutation
        /\ Len(req'.data) = 2
        /\ \E i \in 1..2 : ~ItemValid(req'.data[i]) /\ ItemValid(req'.data[3 - i]))
       => /\ db' = db
          /\ resp'.code # 0
          /\ \E i \in 1..2 : ~ItemValid(req'.data[i]) /\ resp'.error.key = req'.data[i][1]
      ]_vars

\* C6: a create or update whose body holds a key that is no mutable field
\* is rejected with 'Unknown field <key>' whatever value the key has, null
\* and the row's current value included, and nothing persisted changes.
C6_UnknownFieldRejected ==
    [][(/\ Mutation
        /\ \E i \in 1..Len(req'.data) :
              /\ req'.data[i][1] \notin updateable_fields("Bottle")
              /\ \A j \in 1..Len(req'.data) : j # i => ItemValid(req'.data[j]))
       => /\ db' = db
          /\ \E i \in 1..Len(req'.data) :
                /\ req'.data[i][1] \notin updateable_fields("Bottle")
                /\ resp' = UnknownField(req'.data[i][1])
      ]_vars

---------------------------------------------------------------------------
\* SpecPointer: the Pointer envelopes of the reference field of a Bottle.

\* what data.pop(key, None) yields for a key the envelope does not hold
Absent == "None"

\* envelopes for the user field: well formed; another __type or className;
\* __type, className or objectId missing; a key too many; no such account
Envelopes ==
    {Pointer("_User", u) : u \in Ids("_User") \cup {MaxUsers + 1}}
      \cup {Envelope("Object", "_User", [objectId |-> Token(1)]),
            Envelope("Pointer", "Bottle", [objectId |-> Token(1)]),
            Envelope(Absent, "_User", [objectId |-> Token(1)]),
            Envelope("Pointer", Absent, [objectId |-> Token(1)]),
            Envelope("Pointer", "_User", <<>>),
            Envelope("Pointer", "_User", [objectId |-> Token(1), extra |-> PyInt(1)])}

PointerBodies ==
    UNION {{<<<<"user", e>>>>,
            <<<<"name", PyStr("b")>>, <<"user", e>>>>,
            <<<<"user", e>>, <<"name", PyStr("b")>>>>} : e \in Envelopes}

CreateBottlePointer ==
    \E user \in Accounts, data \in PointerBodies : Post("BottleView", user, data)

PutBottlePointer ==
    \E user \in Accounts, id \in Ids("Bottle"), data \in PointerBodies :
        Put("DetailBottleView", user, id, data, {})

NextPointer == CreateOwner \/ CreateBottlePointer \/ PutBottlePointer

SpecPointer == Init /\ [][NextPointer]_vars

\* an envelope that is no reference to an account in the tables: __type or
\* className is not that of the account type, the other keys are not
\* exactly the identity, or the identity is that of no account
Unresolvable(e) ==
    \/ e.type # "Pointer"
    \/ e.className # "_User"
    \/ DOMAIN e.fk # {"objectId"}
    \/ ~\E u \in DOMAIN db["_User"] : e.fk["objectId"] = Token(u)

\* C17: a create or update whose reference field carries an envelope of
\* another __type or className, with a key missing or too many, or with an
\* identity of no record, answers 'Invalid type for <field>' and changes
\* no record.
C17_BadPointerRejected ==
    [][(/\ Mutation
        /\ \E i \in 1..Len(req'.data) :
              req'.data[i][1] = "user" /\ Unresolvable(req'.data[i][2]))
       => /\ resp' = InvalidType("user")
          /\ db' = db
          /\ acls' = acls
      ]_vars

\* C17 witness: an update that names a valid field ahead of an envelope
\* with a key too many is refused, and the valid field is not saved.
C17_ExtraKeyRefused ==
    /\ req.method = "put"
    /\ req.view = "DetailBottleView"
    /\ req.data = <<<<"name", PyStr("b")>>,
                    <<"user", Envelope("Pointer", "_User",
                                       [objectId |-> Token(1), extra |-> PyInt(1)])>>>>
    /\ resp = InvalidType("user")
    /\ req.id \in DOMAIN db["Bottle"]
    /\ <<req.user, "write">> \in db["Bottle"][req.id].acl
    /\ db["Bottle"][req.id]["name"] # PyStr("b")

---------------------------------------------------------------------------
\* SpecSip: accounts, their days, sips and the aggregates, the requests run
\* one at a time.

SipBodies(u) ==
    {<<<<"amount", a>>, <<"day", Pointer("Day", d)>>, <<"user", Pointer("_User", u)>>>> :
        a \in Amounts, d \in Ids("Day")}

SipUpdates ==
    {<<<<"amount", a>>>> : a \in Amounts}
      \cup {<<<<"day", Pointer("Day", d)>>>> : d \in Ids("Day")}

\* a Day body sets the stored total to a value of the client's
DayUpdates == {<<<<"totalAmount", PyInt(1)>>>>}

CreateAccount == Post("UserView", NoUser, AccountBody)

CreateSip == \E user \in Accounts : \E data \in SipBodies(user) : Post("SipView", user, data)

PutSip ==
    \E user \in Accounts, id \in Ids("Sip"), data \in SipUpdates :
        Put("DetailSipView", user, id, data, {})

DeleteSip ==
    \E user \in Accounts, id \in Ids("Sip") : DeleteRequest("DetailSipView", user, id)

PutDay ==
    \E user \in Accounts, id \in Ids("Day"), data \in DayUpdates :
        Put("DetailDayView", user, id, data, {})

NextSip == CreateAccount \/ ListDays \/ CreateSip \/ PutSip \/ DeleteSip \/ PutDay

SpecSip == Init /\ [][NextSip]_vars

\* C2: a PUT or DELETE by a principal with no write grant attached to the
\* target answers 'no permission' (209) and leaves every row, grant and
\* aggregate as it was.
C2_WriteRefusedUnchanged ==
    [][(/\ req'.method \in {"put", "delete"}
        /\ req'.user # NoUser
        /\ req'.id \in DOMAIN db[object_class(req'.view)]
        /\ <<req'.user, "write">> \notin db[object_class(req'.view)][req'.id].acl)
       => /\ resp' = NoPermission
          /\ db' = db
          /\ acls' = acls
      ]_vars

\* C2 witness: an account without the write grant asked for the deletion of
\* a sip that counts in a Day total; the sip and the total are in place.
C2_DeleteRefused ==
    /\ req.method = "delete"
    /\ req.view = "DetailSipView"
    /\ resp = NoPermission
    /\ req.id \in DOMAIN db["Sip"]
    /\ <<req.user, "write">> \notin db["Sip"][req.id].acl
    /\ db["Sip"][req.id]["amount"].v > 0
    /\ db["Day"][db["Sip"][req.id]["day"].objectId]["totalAmount"] =
          db["Sip"][req.id]["amount"]

\* the sip a completed Sip request was about: the deleted row, or the row
\* as saved
TouchedSip == IF req'.method = "delete" THEN db["Sip"][req'.id] ELSE db'["Sip"][req'.id]

\* C8: when a Sip create, update or delete has completed, the Day the sip
\* references has totalAmount equal to the sum of its persisted sips, each
\* UserHealthStats of the sip's user has volume equal to the sum of the
\* user's persisted sips and goalMetCount counted over the refreshed days;
\* a second recompute changes nothing and no other Day, stat record or
\* table is touched.
C8_AggregatesRecomputed ==
    [][(/\ req'.view \in {"SipView", "DetailSipView"}
        /\ req'.method \in {"post", "put", "delete"}
        /\ resp'.code = 0)
       => LET D == TouchedSip["day"].objectId
              U == TouchedSip["user"].objectId
          IN  /\ db'["Day"][D]["totalAmount"] = PyInt(SumAmount(SipsOfDay(D, db'), db'))
              /\ \A h \in StatsOfUser(U, db') :
                    /\ db'["UserHealthStats"][h]["volume"] =
                          PyInt(SumAmount(SipsOfUser(U, db'), db'))
                    /\ db'["UserHealthStats"][h]["goalMetCount"] =
                          PyInt(Cardinality(GoalMetDays(U, db')))
                    /\ db'["UserHealthStats"][h]["streak"] = db["UserHealthStats"][h]["streak"]
              /\ SipMixin_update_other(TouchedSip, db') = db'
              /\ \A d \in DOMAIN db["Day"] \ {D} : db'["Day"][d] = db["Day"][d]
              /\ \A h \in DOMAIN db["UserHealthStats"] \ StatsOfUser(U, db) :
                    db'["UserHealthStats"][h] = db["UserHealthStats"][h]
              /\ \A cls \in {"_User", "Bottle", "Location"} : db'[cls] = db[cls]
              /\ acls' = acls
      ]_vars

\* C8 witness: an update naming the Day of a sip has completed; the total
\* of that Day is the amount of the sip and reaches the goal, which the stat
\* record of the sip's user counts.
C8_DayRefreshed ==
    /\ req.view = "DetailSipView"
    /\ req.method = "put"
    /\ resp.code = 0
    /\ Len(req.data) = 1 /\ req.data[1][1] = "day"
    /\ LET sip == db["Sip"][req.id]
           D == sip["day"].objectId
           U == sip["user"].objectId
       IN  /\ db["Day"][D]["totalAmount"] = PyInt(MaxAmount)
           /\ sip["amount"] = PyInt(MaxAmount)
           /\ db["Day"][D]["user"] = Instance("_User", U)
           /\ \E h \in StatsOfUser(U, db) :
                 db["UserHealthStats"][h]["goalMetCount"].v >= 1

---------------------------------------------------------------------------
\* SpecList: the list endpoints of Sip and UserHealthStats with where,
\* order and limit parameters.

ListViews == {"SipView", "UserHealthStatsView"}

\* where objects of a request: predicates on declared fields, a Pointer
\* predicate, an undeclared key, and the user_id key of UserHealthStats
Wheres(view) ==
    IF view = "SipView"
    THEN {<<<<"amount", a>>>> : a \in Amounts}
           \cup {<<<<"user", Pointer("_User", u)>>>> : u \in Ids("_User")}
           \cup {<<<<"bogus", PyInt(1)>>>>,
                 <<<<"amount", PyInt(1)>>, <<"user", Pointer("_User", 1)>>>>}
    ELSE {<<<<"user_id", Token(u)>>>> : u \in Ids("_User")}
           \cup {<<<<"bogus", PyInt(1)>>>>, <<<<"streak", PyInt(1)>>>>,
                 <<<<"goalMetCount", PyInt(1)>>, <<"user_id", Token(1)>>>>}

\* order strings: a field, a field after '-', names that are no field
Orders(view) ==
    {<<IF view = "SipView" THEN "amount" ELSE "volume">>,
     <<"-", IF view = "SipView" THEN "amount" ELSE "volume">>,
     <<"objectId">>, <<"bogus">>, <<"-", "bogus">>, <<"-">>}

\* limit strings: positive, zero, negative, signed, padded, no number
Limits ==
    {<<"1">>, <<"2">>, <<"0">>, <<"-", "1">>, <<"+", "1">>, <<"0", "1">>,
     <<"x">>, <<"1", "x">>, <<>>}

\* the filters of a request: a where object; an order; a limit, alone and
\* after the descending order (of Sip); parameters that are all invalid
Filters(view) ==
    {[NoFilter EXCEPT !.where = {w}] : w \in Wheres(view)}
      \cup {[NoFilter EXCEPT !.order = {o}] : o \in Orders(view)}
      \cup (IF view # "SipView" THEN {}
            ELSE {[NoFilter EXCEPT !.order = o, !.limit = {l}] :
                    o \in {{}, {<<"-", "amount">>}}, l \in Limits})
      \cup {[where |-> {}, order |-> {<<"bogus">>}, limit |-> {<<"0">>}],
            [where |-> {<<<<"bogus", PyInt(1)>>>>}, order |-> {<<"bogus">>},
             limit |-> {<<"0">>}]}

\* a sip of the least Day
CreateSipOfDay ==
    \E user \in Accounts, a \in Amounts :
        Post("SipView", user,
             <<<<"amount", a>>, <<"day", Pointer("Day", 1)>>,
               <<"user", Pointer("_User", user)>>>>)

ListObjects ==
    \E view \in ListViews, user \in Accounts :
        \E filter \in Filters(view) : List(view, user, filter)

NextList == CreateAccount \/ ListDays \/ CreateSipOfDay \/ ListObjects

SpecList == Init /\ [][NextList]_vars

\* the latest request is a list request to one of the two endpoints
Listing == req.method = "get" /\ req.view \in ListViews /\ req.user # NoUser

\* the rows of the listed class the requester holds a read grant on
Readable ==
    {i \in DOMAIN db[object_class(req.view)] :
        <<req.user, "read">> \in db[object_class(req.view)][i].acl}

\* the identities of the rows of a list response, in its order
Returned == [k \in 1..Len(resp.body) |-> resp.body[k]["objectId"].token]

\* a row satisfies a predicate of a where object: the field holds the value,
\* a reference resolves to the identity the Pointer names
Satisfies(row, kv) ==
    CASE kv[1] = "user_id" ->
            "user" \in DOMAIN row /\ Token(row["user"].objectId) = kv[2]
      [] kv[1] \notin DOMAIN row -> FALSE
      [] kv[2].t = "dict" ->
            row[kv[1]] = Instance(IF kv[2].className = "_User" THEN "_User"
                                  ELSE kv[2].className,
                                  kv[2].fk["objectId"].token)
      [] OTHER -> row[kv[1]] = kv[2]

\* C3: a list response holds only rows the requester has a read grant on
\* and that satisfy every predicate of the where object.
C3_ListOnlyReadableMatching ==
    (Listing /\ resp.code = 0) =>
        \A k \in 1..Len(resp.body) :
            /\ Returned[k] \in Readable
            /\ req.filter.where # {} =>
                  \A i \in 1..Len(Given(req.filter.where)) :
                      Satisfies(db[object_class(req.view)][Returned[k]],
                                Given(req.filter.where)[i])

\* the keys a where object may name: the readable fields, and user_id where
\* the endpoint reads it
WhereKeys(view) ==
    full_fields(object_class(view))
       \cup (IF view = "UserHealthStatsView" THEN {"user_id"} ELSE {})

\* C9: on every list endpoint a where key that is no readable field is
\* rejected with 'invalid where', and an order field that is none (after a
\* leading '-') with 'invalid order', when the where object is accepted.
C9_InvalidFilterRejected ==
    Listing =>
        /\ (/\ req.filter.where # {}
            /\ \E i \in 1..Len(Given(req.filter.where)) :
                  Given(req.filter.where)[i][1] \notin WhereKeys(req.view))
              => resp = InvalidWhere
        /\ (/\ req.filter.where = {}
            /\ req.filter.order # {}
            /\ real_order(Given(req.filter.order))
                  \notin {<<f>> : f \in full_fields(object_class(req.view))})
              => resp = InvalidOrder

---------------------------------------------------------------------------
\* SpecRace: two Sip creates for the same Day, handled by two workers at
\* once.  Each statement the handler sends to the database is one step;
\* nothing in the views opens a transaction or locks a row.

Procs == {1, 2}

\* the tables the two requests meet: one account, which has listed its days
RaceDb ==
    LET o == DispatchCreate(Request("post", "UserView", NoUser, 1, AccountBody, {}),
                            EmptyDb, {})
    IN  [db |-> DayView_get(1, o.db, o.acls), acls |-> o.acls]

RaceBody(amount) ==
    <<<<"amount", amount>>, <<"day", Pointer("Day", 1)>>, <<"user", Pointer("_User", 1)>>>>

InitRace ==
    /\ db = RaceDb.db
    /\ acls = RaceDb.acls
    /\ req = NoRequest
    /\ resp = Ok(<<>>)
    /\ pc = [p \in Procs |-> "start"]
    /\ \E a \in [Procs -> Amounts] :
          loc = [p \in Procs |-> [amount |-> a[p], sip |-> PyNone, day |-> PyNone,
                                  stat |-> PyNone]]

\* CreateObjectMixin.post up to SipMixin.update_other: update_object_fields
\* fetches the Day and the account the body points to and saves the Sip
\* under the token p, then the grants are set
RaceSaveSip(p) ==
    /\ pc[p] = "start"
    /\ LET u == update_object_fields("SipView", "Sip", p, NewObject("Sip", p),
                                     RaceBody(loc[p].amount), db)
       IN  /\ db' = CreateObjectMixin_update_other(1, "Sip", p, u.db, acls)
           /\ loc' = [loc EXCEPT ![p].sip = u.obj,
                                 ![p].day = db["Day"][u.obj["day"].objectId]]
    /\ pc' = [pc EXCEPT ![p] = "saved"]
    /\ UNCHANGED <<acls, req, resp>>

\* Day.update_volume_stats, the aggregate query: the sum is put on the Day
\* object the request holds
RaceReadSum(p) ==
    /\ pc[p] = "saved"
    /\ loc' = [loc EXCEPT ![p].day["totalAmount"] =
                  PyInt(SumAmount(SipsOfDay(loc[p].sip["day"].objectId, db), db))]
    /\ pc' = [pc EXCEPT ![p] = "summed"]
    /\ UNCHANGED <<db, acls, req, resp>>

\* Day.update_volume_stats, self.save()
RaceSaveDay(p) ==
    /\ pc[p] = "summed"
    /\ db' = Save("Day", loc[p].sip["day"].objectId, loc[p].day, db)
    /\ pc' = [pc EXCEPT ![p] = "daysaved"]
    /\ UNCHANGED <<acls, loc, req, resp>>

\* UserHealthStats.update_volume_stats of the account's stat, its two
\* queries: the stat is fetched and the sums are put on it
RaceReadStats(p) ==
    /\ pc[p] = "daysaved"
    /\ \E h \in StatsOfUser(loc[p].sip["user"].objectId, db) :
          loc' = [loc EXCEPT ![p].stat =
                    [db["UserHealthStats"][h] EXCEPT
                        !["volume"] = PyInt(SumAmount(SipsOfUser(1, db), db)),
                        !["goalMetCount"] = PyInt(Cardinality(GoalMetDays(1, db)))]]
    /\ pc' = [pc EXCEPT ![p] = "statsread"]
    /\ UNCHANGED <<db, acls, req, resp>>

\* UserHealthStats.update_volume_stats, self.save(); the response follows
RaceSaveStats(p) ==
    /\ pc[p] = "statsread"
    /\ db' = Save("UserHealthStats", loc[p].stat["objectId"].token, loc[p].stat, db)
    /\ pc' = [pc EXCEPT ![p] = "done"]
    /\ UNCHANGED <<acls, loc, req, resp>>

NextRace ==
    \E p \in Procs :
        \/ RaceSaveSip(p)
        \/ RaceReadSum(p)
        \/ RaceSaveDay(p)
        \/ RaceReadStats(p)
        \/ RaceSaveStats(p)

SpecRace == InitRace /\ [][NextRace]_vars

\* C7: when both concurrent Sip creates have completed, the Day's
\* totalAmount is the sum of the two amounts.
C7_NoLostUpdate ==
    (\A p \in Procs : pc[p] = "done") =>
        db["Day"][1]["totalAmount"] = PyInt(loc[1].amount.v + loc[2].amount.v)

---------------------------------------------------------------------------
\* SpecDate: the two conversions of util.py applied to date strings.  A
\* string is the sequence of its characters.

MaxIsoLen == 7

\* the characters of the two suffixes
IsoChars == {"Z", "+", "0", ":"}

IsoStrings == UNION {[1..n -> IsoChars] : n \in 0..MaxIsoLen}

\* str.endswith(suffix)
endswith(str, suffix) ==
    /\ Len(str) >= Len(suffix)
    /\ SubSeq(str, Len(str) - Len(suffix) + 1, Len(str)) = suffix

\* sanitize_isodate: isodate[:-1] + '+00:00' for a string ending in 'Z'
sanitize_isodate(isodate) ==
    IF endswith(isodate, <<"Z">>)
    THEN SubSeq(isodate, 1, Len(isodate) - 1) \o <<"+", "0", "0", ":", "0", "0">>
    ELSE isodate

\* unsanitize_isodate cutting five characters in place of six
unsanitize_isodate_short(isodate) ==
    IF endswith(isodate, <<"+", "0", "0", ":", "0", "0">>)
    THEN SubSeq(isodate, 1, Len(isodate) - 5) \o <<"Z">>
    ELSE isodate

\* unsanitize_isodate: isodate[:-6] + 'Z' for a string ending in '+00:00'
unsanitize_isodate(isodate) ==
    IF endswith(isodate, <<"+", "0", "0", ":", "0", "0">>)
    THEN SubSeq(isodate, 1, Len(isodate) - 6) \o <<"Z">>
    ELSE isodate

\* loc holds the string given, the string after the calls made, and the
\* names of those calls
InitDate ==
    /\ db = EmptyDb
    /\ acls = {}
    /\ req = NoRequest
    /\ resp = Ok(<<>>)
    /\ pc = <<>>
    /\ \E s \in IsoStrings : loc = [orig |-> s, cur |-> s, calls |-> <<>>]

Sanitize ==
    /\ Len(loc.calls) < 2
    /\ loc' = [loc EXCEPT !.cur = sanitize_isodate(@),
                          !.calls = Append(@, "sanitize_isodate")]
    /\ UNCHANGED <<db, acls, req, resp, pc>>

Unsanitize ==
    /\ Len(loc.calls) < 2
    /\ loc' = [loc EXCEPT !.cur = unsanitize_isodate(@),
                          !.calls = Append(@, "unsanitize_isodate")]
    /\ UNCHANGED <<db, acls, req, resp, pc>>

NextDate == Sanitize \/ Unsanitize

SpecDate == InitDate /\ [][NextDate]_vars

\* C18: unsanitize_isodate after sanitize_isodate gives back a string that
\* ends in 'Z', sanitize_isodate after unsanitize_isodate gives back a
\* string that ends in '+00:00', and each function alone leaves a string
\* without its suffix as it is.
C18_DateRoundTrip ==
    LET z == Len(loc.orig) >= 1 /\ loc.orig[Len(loc.orig)] = "Z"
        offset == /\ Len(loc.orig) >= 6
                  /\ \A i \in 1..6 :
                        loc.orig[Len(loc.orig) - 6 + i]
                           = <<"+", "0", "0", ":", "0", "0">>[i]
    IN  /\ (loc.calls = <<"sanitize_isodate", "unsanitize_isodate">> /\ z)
              => loc.cur = loc.orig
        /\ (loc.calls = <<"unsanitize_isodate", "sanitize_isodate">> /\ offset)
              => loc.cur = loc.orig
        /\ (loc.calls = <<"sanitize_isodate">> /\ ~z) => loc.cur = loc.orig
        /\ (loc.calls = <<"unsanitize_isodate">> /\ ~offset) => loc.cur = loc.orig

\* C18 witness: a string ending in 'Z' has been through both conversions
\* and is itself again.
C18_WireFormRestored ==
    /\ loc.calls = <<"sanitize_isodate", "unsanitize_isodate">>
    /\ loc.orig = <<"0", ":", "0", "Z">>
    /\ loc.cur = loc.orig

---------------------------------------------------------------------------
\* SpecPipeline: requests as they arrive on the wire, through View.as_view
\* (setup, then APIView.dispatch): the credential headers, the raw body, the
\* _method override, and the handler Django picks for the method.

\* the envelope of 'unauthorized' has no code member
NoCode == -1

\* len(data) above which parse_json refuses the body
BodyLimit == 10000000

Unauthorized == [code |-> NoCode, error |-> Err("unauthorized", ""), body |-> <<>>]

InvalidJson == APIException(202, Err("invalid json", ""))

\* View.http_method_not_allowed: Django's 405, for a method with no handler
MethodNotAllowed == [code |-> 405, error |-> Err("method not allowed", ""), body |-> <<>>]

\* what json.loads returns: an object (its items in order), or another value
JsonObject(items) == [t |-> "dict", items |-> items]

JsonList == [t |-> "list", items |-> <<>>]

JsonNumber == [t |-> "int", items |-> <<>>]

\* a text that json.loads raises JSONDecodeError on
Malformed == [t |-> "malformed", items |-> <<>>]

\* the credential headers of a request: whether each equals its setting
Headers(app, rest, client) == [app |-> app, rest |-> rest, client |-> client]

\* APIView.access_check: authorized
authorized(headers) == headers.app /\ (headers.rest \/ headers.client)

\* APIView.parse_json
parse_json(body) ==
    IF body.len = 0 THEN Return(JsonObject(<<>>))
    ELSE IF body.len > BodyLimit THEN Raise("APIException")
    ELSE IF body.json = Malformed THEN Raise("APIException")
    ELSE Return(body.json)

\* str.lower on the method names
lower(str) ==
    CASE str \in {"GET", "get"} -> "get"
      [] str \in {"POST", "post"} -> "post"
      [] str \in {"PUT", "put"} -> "put"
      [] str \in {"DELETE", "delete"} -> "delete"
      [] str \in {"PATCH", "patch"} -> "patch"
      [] OTHER -> str

\* the handlers a view class has: the methods its mixins and itself define
handlers(view) ==
    CASE view \in {"UserView", "BottleView"} -> {"get", "post"}
      [] view = "DetailBottleView" -> {"get", "put", "delete"}
      [] view = "CalculateDayTotal" -> {"get", "post"}
      [] view = "DayView" -> {"get"}

\* the mixin method a handler ends in: the post of CalculateDayTotal is
\* GetObjectMixin.get
handler(view, name) ==
    IF view = "CalculateDayTotal" /\ name = "post" THEN "get" ELSE name

\* ObjectIDMixin.setup and the setup of CalculateDayTotal: self.id
setup(w) ==
    IF w.view # "CalculateDayTotal" THEN Return(w.id)
    ELSE IF w.param = {} THEN Raise("APIException")
    ELSE Return(Given(w.param))

\* request.method of dispatch after the _method test, with the arrival verb
request_method_of_arrival(verb, data) == verb

\* request.method of dispatch after the _method test
request_method(verb, data) ==
    IF "_method" \in Keys(data) /\ lower(verb) # lower(ValueOf(data, "_method").v)
    THEN lower(ValueOf(data, "_method").v)
    ELSE verb

\* setup_api and View.dispatch, for a request that passed access_check and
\* whose body parsed to data
super_dispatch(r, data, table, aclrows) ==
    LET cls == object_class(r.view)
        name == lower(r.method)
        detail == r.view \in {"DetailBottleView", "CalculateDayTotal"}
        q == [r EXCEPT !.method = handler(r.view, name), !.data = data.items]
    IN  IF detail /\ r.id \notin DOMAIN table[cls]
        THEN {Outcome(DoesNotExist, table, aclrows)}
        ELSE IF name \notin handlers(r.view)
        THEN {Outcome(MethodNotAllowed, table, aclrows)}
        ELSE IF detail
        THEN IF q.method = "put" /\ data.t # "dict"
             THEN IF put_access_check(r.view)
                     /\ ~acl_exists(table[cls][r.id], r.user, "write")
                  THEN {Outcome(NoPermission, table, aclrows)}
                  ELSE {Outcome(ServerError("AttributeError"), table, aclrows)}
             ELSE {DispatchDetail(q, table, aclrows)}
        ELSE IF name = "post"
        THEN IF data.t # "dict"
             THEN {Outcome(IF r.view = "UserView" THEN NoPassword
                           ELSE ServerError("AttributeError"), table, aclrows)}
             ELSE {DispatchCreate(q, table, aclrows)}
        ELSE IF r.view = "UserView"
        THEN {Outcome(Ok([results |-> <<>>]), table, aclrows)}
        ELSE DispatchList(q, table, aclrows)

\* APIView.dispatch: the outcomes of a request, each with the request as
\* dispatch leaves it (method, _method)
dispatch(w, table, aclrows) ==
    LET parsed == parse_json(w.body)
        data == parsed.val
        given == data.t = "dict" /\ "_method" \in Keys(data.items)
        method == request_method(w.method, data.items)
        r == IF method = w.method THEN w
             ELSE [w EXCEPT !.method = method, !.original = {w.method}]
        rest == IF method = w.method THEN data
                ELSE JsonObject(Without(data.items, "_method"))
        Answer(x) == [req |-> w, out |-> Outcome(x, table, aclrows)]
    IN  IF ~authorized(w.headers) THEN {Answer(Unauthorized)}
        ELSE IF LoginRequiredMixin(w.view) /\ w.user = NoUser
        THEN {Answer(LoginRequired)}
        ELSE IF parsed.exc # "" THEN {Answer(InvalidJson)}
        ELSE IF data.t = "int" THEN {Answer(ServerError("TypeError"))}
        ELSE IF given /\ ValueOf(data.items, "_method").t # "str"
        THEN {Answer(ServerError("AttributeError"))}
        ELSE {[req |-> r, out |-> o] : o \in super_dispatch(r, rest, table, aclrows)}

\* View.as_view: setup, outside the try of dispatch, then dispatch
as_view(w, table, aclrows) ==
    LET s == setup(w)
    IN  IF s.exc # ""
        THEN {[req |-> w, out |-> Outcome(ServerError(s.exc), table, aclrows)]}
        ELSE dispatch([w EXCEPT !.id = s.val], table, aclrows)

\* a request as it arrives: request.method is the verb, request._method is
\* not set (original is empty), request.GET holds param and filter
Wire(verb, view, headers, user, id, param, filter, body) ==
    [verb |-> verb, method |-> verb, original |-> {}, view |-> view,
     headers |-> headers, user |-> user, id |-> id, param |-> param,
     filter |-> filter, body |-> body, data |-> <<>>, recent |-> {}]

Body(len, json) == [len |-> len, json |-> json]

NoBody == Body(0, JsonObject(<<>>))

\* the headers of the application, with the REST API key
AppHeaders == Headers(TRUE, TRUE, FALSE)

AllHeaders == {Headers(a, r, c) : a, r, c \in BOOLEAN}

Serve(w) ==
    \E x \in as_view(w, db, acls) :
        /\ req' = x.req
        /\ resp' = x.out.resp
        /\ db' = x.out.db
        /\ acls' = x.out.acls
        /\ UNCHANGED <<pc, loc>>

InitPipeline ==
    /\ db = EmptyDb
    /\ acls = {}
    /\ req = Wire("none", "none", AppHeaders, NoUser, 0, {}, NoFilter, NoBody)
    /\ resp = Ok(<<>>)
    /\ pc = <<>>
    /\ loc = <<>>

\* bodies of a create: well-formed, malformed, oversized, not an object,
\* naming an undeclared field
CreateBodies ==
    {Body(2, JsonObject(<<<<"name", PyStr("a")>>, <<"user", Pointer("_User", 1)>>>>)),
     Body(2, JsonObject(<<<<"bogus", PyInt(1)>>>>)),
     Body(2, Malformed),
     Body(BodyLimit + 1, JsonObject(<<<<"name", PyStr("a")>>>>)),
     Body(2, JsonNumber),
     Body(2, JsonList)}

\* bodies sent to a detail view: none, an update, a _method (another verb,
\* the same verb, one with no handler, one that is no string), a list
DetailBodies ==
    {NoBody,
     Body(2, JsonObject(<<<<"name", PyStr("b")>>>>)),
     Body(2, JsonObject(<<<<"_method", PyStr("DELETE")>>>>)),
     Body(2, JsonObject(<<<<"_method", PyStr("GET")>>>>)),
     Body(2, JsonObject(<<<<"_method", PyStr("PUT")>>, <<"name", PyStr("b")>>>>)),
     Body(2, JsonObject(<<<<"_method", PyStr("PATCH")>>>>)),
     Body(2, JsonObject(<<<<"_method", PyInt(1)>>>>)),
     Body(2, JsonList)}

\* query strings of GET /classes/Day: none, and one invalid parameter each
DayFilters ==
    {NoFilter,
     [NoFilter EXCEPT !.where = {<<<<"bogus", PyInt(1)>>>>}],
     [NoFilter EXCEPT !.order = {<<"bogus">>}],
     [NoFilter EXCEPT !.limit = {<<"-", "1">>}]}

\* headers that do not authorize: no application id, no key
BadHeaders == {h \in AllHeaders : ~authorized(h)}

\* POST /classes/_User and POST /classes/Bottle
WireCreate ==
    \E view \in {"UserView", "BottleView"} :
        /\ FreshIds(object_class(view), db) # {}
        /\ \E user \in Principals, body \in CreateBodies :
              Serve(Wire("POST", view, AppHeaders, user, NewId(object_class(view)),
                         {}, NoFilter,
                         IF view = "UserView" THEN Body(2, JsonObject(AccountBody))
                         ELSE body))

\* any verb on /classes/Bottle/<id>
WireDetail ==
    \E user \in Principals, id \in Ids("Bottle") :
        \E w \in {Wire(verb, "DetailBottleView", AppHeaders, user, id, {}, NoFilter,
                       body) : verb \in {"GET", "POST", "PUT", "DELETE"},
                              body \in DetailBodies}
                  \cup {Wire("PUT", "DetailBottleView", h, user, id, {}, NoFilter,
                             Body(2, JsonObject(<<<<"name", PyStr("b")>>>>))) :
                          h \in BadHeaders} :
            Serve(w)

\* POST /functions/calculatedaytotal, with and without ?dayId=
WireCalculate ==
    \E headers \in {AppHeaders, Headers(TRUE, FALSE, TRUE), Headers(TRUE, FALSE, FALSE),
                     Headers(FALSE, TRUE, TRUE)},
       user \in Principals, param \in {{}} \cup {{d} : d \in Ids("Day")} :
        Serve(Wire("POST", "CalculateDayTotal", headers, user, 0, param, NoFilter,
                   NoBody))

\* GET /classes/Day
WireListDays ==
    \E user \in Principals, filter \in DayFilters,
       headers \in {AppHeaders, Headers(TRUE, FALSE, FALSE)} :
        Serve(Wire("GET", "DayView", headers, user, 0, {}, filter, NoBody))

NextPipeline ==
    \/ WireCreate
    \/ WireDetail
    \/ WireCalculate
    \/ WireListDays

SpecPipeline == InitPipeline /\ [][NextPipeline]_vars

\* C11: a request whose credential headers do not authorize it is answered
\* with the fixed 'unauthorized' response, whatever its endpoint, body and
\* query parameters, and no table is changed.
C11_UnauthorizedFirst ==
    [][~authorized(req'.headers) =>
          resp' = Unauthorized /\ db' = db /\ acls' = acls]_vars

\* the responses of a parse or validation error
ValidationErrors ==
    {"invalid json", "Unknown field", "Invalid type for", "invalid where",
     "invalid order", "invalid limit"}

\* C12: a request answered with a parse or validation error has changed no
\* row and no grant.
C12_ErrorChangesNothing ==
    [][resp'.error.msg \in ValidationErrors => db' = db /\ acls' = acls]_vars

\* C13: no request ends in an exception that leaves dispatch unhandled.
C13_NoUnhandled == resp.error.msg # "unhandled"

\* the _method a request body carries as a string, if any
Override(r) ==
    IF r.body.len = 0 \/ r.body.len > BodyLimit \/ r.body.json.t # "dict" THEN {}
    ELSE {kv[2].v : kv \in {x \in Range(r.body.json.items) :
                              x[1] = "_method" /\ x[2].t = "str"}}

\* C16: an authorized request of a logged-in principal to a bottle's detail
\* view whose body names a _method other than the arrival verb leaves
\* dispatch with that method as request.method and the arrival verb as
\* request._method, and is served as a request of that verb is: a delete or
\* an update without the write grant is refused and changes nothing, with
\* the grant it deletes or updates the bottle; a get answers by the read
\* grant; a verb with no handler is not allowed.
C16_OverrideDrivesDispatch ==
    [][\A m \in Override(req') :
          (/\ lower(m) # lower(req'.verb)
           /\ req'.view = "DetailBottleView"
           /\ authorized(req'.headers)
           /\ req'.user # NoUser)
          => /\ req'.method = lower(m)
             /\ req'.original = {req'.verb}
             /\ req'.id \in DOMAIN db["Bottle"] =>
                  LET obj == db["Bottle"][req'.id]
                      write == <<req'.user, "write">> \in obj.acl
                      read == <<req'.user, "read">> \in obj.acl
                      same == db' = db /\ acls' = acls
                  IN  CASE lower(m) \in {"delete", "put"} /\ ~write ->
                               resp' = NoPermission /\ same
                        [] lower(m) = "delete" /\ write ->
                               resp'.code = 0 /\ req'.id \notin DOMAIN db'["Bottle"]
                        [] lower(m) = "put" /\ write ->
                               /\ resp'.code = 0
                               /\ db'["Bottle"][req'.id]["name"] = PyStr("b")
                        [] lower(m) = "get" ->
                               same /\ (resp'.code = 0 <=> read)
                        [] OTHER -> resp' = MethodNotAllowed /\ same
      ]_vars

\* C16 witness: a POST carrying _method DELETE for a bottle the requester
\* holds no write grant on was refused as a DELETE is, and the bottle is
\* still there.
C16_PostAsDeleteRefused ==
    /\ req.verb = "POST"
    /\ req.method = "delete"
    /\ req.original = {"POST"}
    /\ req.view = "DetailBottleView"
    /\ req.id \in DOMAIN db["Bottle"]
    /\ <<req.user, "write">> \notin db["Bottle"][req.id].acl
    /\ resp = NoPermission

\* the kind of an error response, of the five the codes tell apart
Kind(r) ==
    CASE r.error.msg = "Unknown field" -> "unknown field"
      [] r.error.msg \in {"invalid where", "invalid order", "invalid limit"} ->
            "invalid filter"
      [] r.error.msg = "does not exist" -> "missing object"
      [] r.error.msg = "login required" -> "login required"
      [] r.error.msg = "no permission" -> "no permission"
      [] OTHER -> "other"

\* C20: every error envelope has a code, and two error responses of
\* different kinds (unknown field, invalid filter, missing object, login
\* required, no permission) have different codes.
C20_DistinctCodes ==
    [][/\ (IsError(resp') /\ resp'.error.msg # "unhandled") => resp'.code # NoCode
       /\ (Kind(resp) # "other" /\ Kind(resp') # "other" /\ Kind(resp) # Kind(resp'))
            => resp.code # resp'.code
      ]_vars

---------------------------------------------------------------------------
\* SpecFault: Sip requests during which a statement of the update_other hook
\* raises a storage error (the database refuses the write).  Django runs in
\* autocommit: what was saved before the raise stays saved.

\* the writes of SipMixin.update_other, in the order it makes them
FaultPoints == {"acl.set", "day.save", "stat.save"}

\* the tables when the write at raises in update_other of a Sip view: the
\* writes before it are done, the others are not
update_other_raising(view, user, cls, id, obj, at, table, aclrows) ==
    LET t1 == IF view = "SipView"
              THEN CreateObjectMixin_update_other(user, cls, id, table, aclrows)
              ELSE table
        day == obj["day"].objectId
    IN  CASE at = "acl.set" -> table
          [] at = "day.save" -> t1
          [] at = "stat.save" -> Day_update_volume_stats(day, t1["Day"][day], t1)

\* CreateObjectMixin.post and UpdateObjectMixin.put of a request that passes
\* the checks, when update_other raises after update_object_fields has
\* saved: the exception is no APIException, so the except clause of
\* dispatch lets it pass
handler_raising(r, at, table, aclrows) ==
    LET cls == object_class(r.view)
        obj == IF r.method = "post" THEN NewObject(cls, r.id) ELSE table[cls][r.id]
        u == update_object_fields(r.view, cls, r.id, obj, r.data, table)
    IN  Outcome(ServerError("DatabaseError"),
                update_other_raising(r.view, r.user, cls, r.id, u.obj, at, u.db,
                                     aclrows),
                aclrows)

\* a request during which the write at raises
Raising(r, at) == r @@ [fault |-> at]

\* POST /classes/Sip that would succeed, with the hook raising
CreateSipRaising ==
    /\ FreshIds("Sip", db) # {}
    /\ \E user \in Accounts, at \in FaultPoints :
          LET data == <<<<"amount", PyInt(1)>>, <<"day", Pointer("Day", 1)>>,
                        <<"user", Pointer("_User", user)>>>>
              r == Request("post", "SipView", user, NewId("Sip"), data, {})
          IN  /\ DispatchCreate(r, db, acls).resp.code = 0
              /\ Respond(Raising(r, at), handler_raising(r, at, db, acls))

\* PUT /classes/Sip/<id> that would succeed, with the hook raising
PutSipRaising ==
    \E user \in Accounts, id \in DOMAIN db["Sip"], at \in FaultPoints \ {"acl.set"} :
        LET r == Request("put", "DetailSipView", user, id,
                         <<<<"amount", PyInt(MaxAmount)>>>>, {})
        IN  /\ DispatchDetail(r, db, acls).resp.code = 0
            /\ Respond(Raising(r, at), handler_raising(r, at, db, acls))

NextFault ==
    \/ CreateAccount
    \/ ListDays
    \/ CreateSipOfDay
    \/ CreateSipRaising
    \/ PutSipRaising

SpecFault == Init /\ [][NextFault]_vars

\* C14: when update_other raises after a create or update has saved the
\* record, the response is an error envelope with a code and a message, and
\* the record is in its table with the values of the request.
C14_HookFailureReported ==
    [][("fault" \in DOMAIN req') =>
          LET cls == object_class(req'.view)
          IN  /\ IsError(resp')
              /\ resp'.error.msg # "unhandled"
              /\ req'.id \in DOMAIN db'[cls]
              /\ \A i \in 1..Len(req'.data) :
                    serialize_field(cls, db'[cls][req'.id], req'.data[i][1])
                       = req'.data[i][2]
      ]_vars

---------------------------------------------------------------------------
\* SpecSession: the session middleware around the views.  loc is the
\* hidrate_session table: session key -> the userId the session holds, the
\* _session_expiry its data holds (0 for none) and whether its expire_date
\* has passed.

\* how many session keys can be drawn
MaxTokens == 3

SessionKeys == 1..MaxTokens

\* SessionStore.load reading the session of a key whatever its expire_date
load_expired(token, sessions) ==
    IF token # {} /\ Given(token) \in DOMAIN sessions
    THEN [session_key |-> token, userId |-> sessions[Given(token)].userId]
    ELSE [session_key |-> {}, userId |-> NoUser]

\* Django's SessionStore.load: the session of the key the header carries;
\* none when the header is absent, the key unknown or the session expired
load(token, sessions) ==
    IF token # {} /\ Given(token) \in DOMAIN sessions
       /\ ~sessions[Given(token)].expired
    THEN [session_key |-> token, userId |-> sessions[Given(token)].userId]
    ELSE [session_key |-> {}, userId |-> NoUser]

\* the key SessionStore.create draws: one the table does not hold
NewKey(sessions) ==
    CHOOSE k \in SessionKeys \ DOMAIN sessions :
        \A j \in SessionKeys \ DOMAIN sessions : k <= j

\* the username an account registered with: the column is unique and is
\* left out of the tables, so a username stands for its account
Username(u) == [t |-> "str", username |-> u]

\* check_password(password, user.password)
check_password(password, encoded) == make_password(password) = encoded

\* User.validate_password
validate_password(data, table) ==
    IF ~{"username", "password"} \subseteq Keys(data) THEN Raise("ValueError")
    ELSE LET u == ValueOf(data, "username").username
         IN  IF u \notin DOMAIN table["_User"] THEN Raise("ValueError")
             ELSE IF ~check_password(ValueOf(data, "password"),
                                     table["_User"][u]["password"])
             THEN Raise("ValueError")
             ELSE Return(u)

InvalidLogin == APIException(101, Err("invalid username/password.", ""))

\* what a view leaves to the middleware: its outcome, request.hidrate_user,
\* whether it called get_or_create_session_key, whether it called
\* set_expiry(-1), which puts _session_expiry = -1 in the session and
\* makes the expire_date it is saved with a past one
Viewed(o, user, keyed, expiry) ==
    [out |-> o, user |-> user, keyed |-> keyed, expiry |-> expiry]

\* LoginView: get_object in setup_api, then get
LoginView(r, table, aclrows) ==
    LET v == validate_password(r.data, table)
        o == GetObjectMixin_get("LoginView", v.val, "_User", table["_User"][v.val])
    IN  IF v.exc # "" THEN Viewed(Outcome(InvalidLogin, table, aclrows), r.user, FALSE, FALSE)
        ELSE Viewed(Outcome(o, table, aclrows), v.val, o.code = 0, FALSE)

\* LogoutView.post
LogoutView(r, table, aclrows) ==
    IF r.user = NoUser
    THEN Viewed(Outcome(LoginRequired, table, aclrows), r.user, FALSE, FALSE)
    ELSE Viewed(Outcome(Ok(<<>>), table, aclrows), r.user, FALSE, TRUE)

\* UserView.post: update_other makes the new account request.hidrate_user,
\* get_create_response answers the session key
UserView(r, o) ==
    IF o.resp.code = 0 THEN Viewed(o, r.id, TRUE, FALSE)
    ELSE Viewed(o, r.user, FALSE, FALSE)

\* DetailUserView: get_get_response answers the session key
DetailUserView(r, o) ==
    Viewed(o, r.user, o.resp.code = 0 /\ r.method = "get", FALSE)

\* the view of a request whose principal the middleware has resolved
get_response(r, table, aclrows) ==
    CASE r.view = "LoginView" -> LoginView(r, table, aclrows)
      [] r.view = "LogoutView" -> LogoutView(r, table, aclrows)
      [] r.view = "UserView" -> UserView(r, DispatchCreate(r, table, aclrows))
      [] r.view = "DetailUserView" ->
            DetailUserView(r, DispatchDetail(r, table, aclrows))

\* middleware lines 25-26 binding a session only when it holds no userId
bind_once(userId, user) == IF userId = NoUser THEN user ELSE userId

\* middleware lines 25-26: the userId the session holds after the view
bind(userId, user) == IF user # NoUser /\ userId # user THEN user ELSE userId

\* middleware lines 18-21: request.hidrate_user
hidrate_user(w, s, table) ==
    [w EXCEPT !.user = IF s.userId \in DOMAIN table["_User"] THEN s.userId ELSE NoUser]

\* middleware lines 25-44, after the view has answered v to the request r
\* of session s: the outcome with the sessionToken the view answered, and
\* the session table after the save
process_response(r, s, v, sessions) ==
    LET created == v.keyed /\ s.session_key = {}
        userId == bind(s.userId, v.user)
        modified == created \/ userId # s.userId \/ v.expiry
        empty == s.session_key = {} /\ ~created /\ userId = NoUser
        key == IF s.session_key = {} THEN NewKey(sessions) ELSE Given(s.session_key)
        answer == IF v.keyed
                  THEN [v.out.resp EXCEPT !.body = @ @@ [sessionToken |-> key]]
                  ELSE v.out.resp
        saved == [k \in DOMAIN sessions \cup {key} |->
                    IF k = key
                    THEN [userId |-> userId, expired |-> v.expiry,
                          session_expiry |-> IF v.expiry THEN -1 ELSE 0]
                    ELSE sessions[k]]
        kept == IF created
                THEN [k \in DOMAIN sessions \cup {key} |->
                        IF k = key
                        THEN [userId |-> NoUser, expired |-> FALSE, session_expiry |-> 0]
                        ELSE sessions[k]]
                ELSE sessions
    IN  [req |-> r, resp |-> answer, db |-> v.out.db, acls |-> v.out.acls,
         sessions |-> IF ~empty /\ modified /\ v.out.resp.code # 500 THEN saved
                      ELSE kept]

\* HidrateSessionMiddleware.__call__
HidrateSessionMiddleware(w, table, aclrows, sessions) ==
    process_response(hidrate_user(w, load(w.token, sessions), table),
                     load(w.token, sessions),
                     get_response(hidrate_user(w, load(w.token, sessions), table),
                                  table, aclrows),
                     sessions)

\* a request with its session header; user is filled by the middleware
SessionRequest(method, view, token, id, data) ==
    Request(method, view, NoUser, id, data, {}) @@ [token |-> token]

ServeSession(w) ==
    \E x \in {HidrateSessionMiddleware(w, db, acls, loc)} :
        /\ req' = x.req
        /\ resp' = x.resp
        /\ db' = x.db
        /\ acls' = x.acls
        /\ loc' = x.sessions
        /\ UNCHANGED pc

\* the session header of a request: absent, or a key
SessionHeaders == {{}} \cup {{k} : k \in SessionKeys}

InitSession ==
    /\ db = EmptyDb
    /\ acls = {}
    /\ req = SessionRequest("none", "none", {}, 0, <<>>)
    /\ resp = Ok(<<>>)
    /\ pc = <<>>
    /\ loc = <<>>

\* POST /classes/_User
SessionCreate ==
    /\ FreshIds("_User", db) # {}
    /\ SessionKeys \ DOMAIN loc # {}
    /\ \E token \in SessionHeaders, data \in {AccountBody, <<<<"name", PyStr("a")>>>>} :
          ServeSession(SessionRequest("post", "UserView", token, NewId("_User"), data))

\* GET /login
SessionLogin ==
    /\ SessionKeys \ DOMAIN loc # {}
    /\ \E token \in SessionHeaders, u \in Ids("_User"), pw \in {"pw", "no"} :
          ServeSession(SessionRequest("get", "LoginView", token, 0,
                          <<<<"username", Username(u)>>, <<"password", PyStr(pw)>>>>))

\* POST /logout
SessionLogout ==
    \E token \in SessionHeaders :
        ServeSession(SessionRequest("post", "LogoutView", token, 0, <<>>))

\* GET /classes/_User/<id>
SessionGet ==
    \E token \in SessionHeaders, id \in Ids("_User") :
        ServeSession(SessionRequest("get", "DetailUserView", token, id, <<>>))

\* HIDRATE_SESSION_AGE passes for a session: its expire_date is reached
SessionExpire ==
    /\ \E k \in DOMAIN loc :
          /\ ~loc[k].expired
          /\ loc' = [loc EXCEPT ![k].expired = TRUE]
    /\ UNCHANGED <<db, acls, req, resp, pc>>

NextSession ==
    \/ SessionCreate
    \/ SessionLogin
    \/ SessionLogout
    \/ SessionGet
    \/ SessionExpire

SpecSession == InitSession /\ [][NextSession]_vars

\* a session that resolves to an account: saved, not expired, holding a userId
Live(k, sessions) ==
    k \in DOMAIN sessions /\ ~sessions[k].expired /\ sessions[k].userId # NoUser

\* the step is the passing of time, not a request
Aged == loc' # loc /\ UNCHANGED <<db, acls, req, resp>>

\* the account a successful account creation or login is about
Entered(r) ==
    IF r.view = "UserView" THEN r.id ELSE ValueOf(r.data, "username").username

\* the step is a successful account creation or login
Enters == ~Aged /\ req'.view \in {"UserView", "LoginView"} /\ resp'.code = 0

\* the step is a successful logout with session key k
LogsOut(k) == ~Aged /\ req'.view = "LogoutView" /\ req'.token = {k} /\ resp'.code = 0

\* a request carrying a live session key is resolved to the account of the
\* session: the account reads itself, and is refused another account
ResolvedToHolder ==
    \A k \in DOMAIN loc :
        (Live(k, loc) /\ ~Aged /\ req'.token = {k}) =>
            /\ req'.user = loc[k].userId
            /\ (req'.view = "DetailUserView" /\ req'.id \in DOMAIN db["_User"]) =>
                  IF req'.id = req'.user
                  THEN resp'.code = 0 /\ resp'.body["objectId"] = Token(req'.user)
                  ELSE resp' = NoPermission

\* a successful account creation or login answers a session key that is
\* live and holds the account
TokenIssued ==
    Enters => /\ Live(resp'.body["sessionToken"], loc')
              /\ loc'[resp'.body["sessionToken"]].userId = Entered(req')

\* C15 as stated: a session key that resolves to an account resolves to it
\* in the next state too, unless the step is a logout with that key.
C15_TokenKeepsAccount ==
    [][/\ ResolvedToHolder
       /\ TokenIssued
       /\ \A k \in DOMAIN loc :
             (Live(k, loc) /\ ~LogsOut(k)) =>
                 Live(k, loc') /\ loc'[k].userId = loc[k].userId
      ]_vars

\* C15 amended: a successful account creation or login answers a session
\* key that resolves to its account; a request carrying a live key is
\* resolved to the account the session holds, which reads itself and is
\* refused another account with 'no permission'; and the session holds its
\* account until it expires, by a logout with that key or by its age, or
\* until a later successful account creation or login carrying the same
\* key binds it to the account of that request.
C15_TokenKeepsAccountUntilRebound ==
    [][/\ ResolvedToHolder
       /\ TokenIssued
       /\ \A k \in DOMAIN loc :
             Live(k, loc) =>
                 \/ Live(k, loc') /\ loc'[k].userId = loc[k].userId
                 \/ loc'[k].expired /\ (Aged \/ LogsOut(k))
                 \/ /\ Enters
                    /\ req'.token = {k}
                    /\ Live(k, loc')
                    /\ loc'[k].userId = Entered(req')
      ]_vars

\* C15 witness: a login carrying the live session key of another account
\* succeeded, and the key now resolves to the account that logged in.
C15_TokenRebound ==
    /\ req.view = "LoginView"
    /\ resp.code = 0
    /\ req.user # NoUser
    /\ req.token # {}
    /\ Live(Given(req.token), loc)
    /\ loc[Given(req.token)].userId = Entered(req)
    /\ req.user # Entered(req)
    /\ resp.body["sessionToken"] = Given(req.token)

---------------------------------------------------------------------------
\* SpecLoop: a Bottle create or update followed statement by statement
\* through update_object_fields.  pc is "idle" between requests and "loop"
\* while the handler is inside the for loop; loc holds the loop's index
\* and the record object the handler has in memory.

Idle == [i |-> 0, obj |-> PyNone, start |-> PyNone]

InitLoop ==
    /\ db = EmptyDb
    /\ acls = {}
    /\ req = NoRequest
    /\ resp = Ok(<<>>)
    /\ pc = "idle"
    /\ loc = Idle

LoopOwner == pc = "idle" /\ CreateOwner

\* the request is answered before update_object_fields is entered
Refuse(r, error) ==
    /\ req' = r
    /\ resp' = error
    /\ UNCHANGED <<db, acls, pc, loc>>

\* self.update_object_fields(self.object) is entered with the object obj
Enter(r, obj) ==
    /\ req' = r
    /\ pc' = "loop"
    /\ loc' = [i |-> 1, obj |-> obj, start |-> obj]
    /\ UNCHANGED <<db, acls, resp>>

\* dispatch of a POST to BottleView up to the call of update_object_fields:
\* access_check, then setup_api, which constructs the object
LoopPost ==
    /\ pc = "idle"
    /\ FreshIds("Bottle", db) # {}
    /\ \E user \in Principals :
         \E data \in {b \in RichBodies : \A i \in 1..Len(b) : b[i][1] # "objectId"} :
           LET r == Request("post", "BottleView", user, NewId("Bottle"), data, {})
           IN  IF access_check(r.view, user).code # 0
               THEN Refuse(r, access_check(r.view, user))
               ELSE Enter(r, NewObject("Bottle", r.id))

\* dispatch of a PUT to DetailBottleView up to the call of
\* update_object_fields: access_check, get_object, the write check of put
LoopPut ==
    /\ pc = "idle"
    /\ \E user \in Principals, id \in Ids("Bottle"), data \in RichBodies :
           LET r == Request("put", "DetailBottleView", user, id, data, {})
           IN  IF access_check(r.view, user).code # 0
               THEN Refuse(r, access_check(r.view, user))
               ELSE IF id \notin DOMAIN db["Bottle"] THEN Refuse(r, DoesNotExist)
               ELSE IF put_access_check(r.view)
                       /\ ~acl_exists(db["Bottle"][id], user, "write")
               THEN Refuse(r, NoPermission)
               ELSE Enter(r, db["Bottle"][id])

\* one pass of the for loop: obj.update_value(key, value) on the item at
\* hand, which assigns the field or raises
LoopItem ==
    /\ pc = "loop"
    /\ loc.i <= Len(req.data)
    /\ LET cls == object_class(req.view)
           key == req.data[loc.i][1]
           r == update_value(cls, loc.obj, key, req.data[loc.i][2], db)
       IN  IF r.exc # ""
           THEN /\ resp' = IF r.exc \in {"AttributeError", "KeyError"}
                           THEN UnknownField(key) ELSE InvalidType(key)
                /\ pc' = "idle"
                /\ loc' = Idle
           ELSE /\ loc' = [loc EXCEPT !.obj = r.val, !.i = @ + 1]
                /\ UNCHANGED <<pc, resp>>
    /\ UNCHANGED <<db, acls, req>>

\* after the loop: obj.save(), then update_other and the response
LoopSave ==
    /\ pc = "loop"
    /\ loc.i > Len(req.data)
    /\ LET cls == object_class(req.view)
       IN  IF ~SaveOk(cls, req.id, loc.obj, db)
           THEN /\ resp' = Failed
                /\ UNCHANGED <<db, acls>>
           ELSE LET o == update_other(req.view, req.user, cls, req.id, loc.obj, {},
                                      Save(cls, req.id, loc.obj, db), acls)
                IN  /\ resp' = Ok([objectId |-> serialize_field(cls, loc.obj, "objectId")])
                    /\ db' = o.db
                    /\ acls' = o.acls
    /\ pc' = "idle"
    /\ loc' = Idle
    /\ UNCHANGED req

NextLoop == LoopOwner \/ LoopPost \/ LoopPut \/ LoopItem \/ LoopSave

SpecLoop == InitLoop /\ [][NextLoop]_vars

\* the keys of the body that update_value has been called on and let pass
Validated == {req.data[j][1] : j \in 1..(loc.i - 1)}

\* C21: in a create or update, once a field has been assigned to the record
\* object, every key of the request body has already passed validation.
C21_ValidatedBeforeAssigned ==
    (pc = "loop" /\ loc.obj # loc.start) => Validated = Keys(req.data)

---------------------------------------------------------------------------
\* SpecGrant: the endpoints that write to a record found by a token the
\* client names: the detail views of Bottle and Installation, and the
\* saveglow function.

MissingGlow == APIException(202, Err("missing glow", ""))

\* CreateGlow.get_object: the Glow whose id the body names.  A value that
\* is the id of no row raises inside the try and is passed over.
CreateGlow_get_object(data, table) ==
    {g \in DOMAIN table["Glow"] : "id" \in Keys(data) /\ ValueOf(data, "id") = Token(g)}

\* POST functions/saveglow: access_check; setup_api, which takes the 'glow'
\* of the body for the field data and gets the object, removing 'id';
\* CreateObjectMixin.post on that object
CreateGlow(r, table, aclrows) ==
    LET a == access_check(r.view, r.user)
    IN  IF a.code # 0 THEN Outcome(a, table, aclrows)
        ELSE IF "glow" \notin Keys(r.data) THEN Outcome(MissingGlow, table, aclrows)
        ELSE LET data == ValueOf(r.data, "glow").items
                 named == CreateGlow_get_object(data, table)
                 id == IF named = {} THEN r.id ELSE CHOOSE g \in named : TRUE
                 obj == IF named = {} THEN NewObject("Glow", r.id) ELSE table["Glow"][id]
                 u == update_object_fields(r.view, "Glow", id, obj, Without(data, "id"),
                                           table)
                 o == update_other(r.view, r.user, "Glow", id, u.obj, {}, u.db, aclrows)
             IN  IF u.resp.code # 0 THEN Outcome(u.resp, table, aclrows)
                 ELSE Outcome(Ok([result |->
                                    [glowId |-> serialize_field("Glow", u.obj, "id")]]),
                              o.db, o.acls)

\* the bodies of saveglow: without 'glow'; a new Glow; the id of a Glow
\* with a new name; an id no Glow has
GlowBodies ==
    {<<>>,
     <<<<"glow", JsonObject(<<<<"name", PyStr("a")>>, <<"content", PyInt(1)>>>>)>>>>,
     <<<<"glow", JsonObject(<<<<"id", Token(MaxBottles + 1)>>, <<"name", PyStr("a")>>,
                              <<"content", PyInt(1)>>>>)>>>>}
      \cup {<<<<"glow", JsonObject(<<<<"id", Token(g)>>, <<"name", PyStr("b")>>>>)>>>> :
               g \in Ids("Glow")}

\* the Glow rows a saveglow body names
NamedGlows(data) ==
    IF "glow" \in Keys(data) THEN CreateGlow_get_object(ValueOf(data, "glow").items, db)
    ELSE {}

\* uuid.uuid4 draws the id of a new Glow when the body names none
SaveGlow ==
    \E user \in Principals, data \in GlowBodies :
        /\ NamedGlows(data) = {} => FreshIds("Glow", db) # {}
        /\ LET r == Request("post", "CreateGlow", user,
                            IF FreshIds("Glow", db) = {} THEN 0 ELSE NewId("Glow"),
                            data, {})
           IN  Respond(r, CreateGlow(r, db, acls))

InstallationBodies ==
    {<<<<"deviceType", PyStr("a")>>>>}
      \cup {<<<<"deviceType", PyStr("b")>>, <<"user", Pointer("_User", u)>>>> :
               u \in Ids("_User")}

CreateInstallation ==
    \E user \in Principals, data \in {<<<<"deviceType", PyStr("a")>>>>} :
        Post("InstallationView", user, data)

GetInstallation ==
    \E user \in Principals, id \in Ids("Installation") :
        Get("DetailInstallationView", user, id)

PutInstallation ==
    \E user \in Principals, id \in Ids("Installation") :
        \E data \in {b \in InstallationBodies :
                        \A i \in 1..Len(b) :
                            b[i][1] = "user" => unserialize_fk("_User", b[i][2], db).exc = ""} :
            Put("DetailInstallationView", user, id, data, {})

NextGrant ==
    CreateUser \/ CreateBottle \/ PutBottle \/ SaveGlow \/ CreateInstallation
      \/ GetInstallation \/ PutInstallation

SpecGrant == Init /\ [][NextGrant]_vars

\* the records of the endpoint's class that existed before the step and
\* that the step wrote to: a column or the attached grants differ
Overwritten ==
    {id \in DOMAIN db[object_class(req'.view)] \cap DOMAIN db'[object_class(req'.view)] :
        db'[object_class(req'.view)][id] # db[object_class(req'.view)][id]}

\* C22: a request writes client-supplied values to a record that already
\* exists, or replaces its grants, only when its principal holds a write
\* grant on that record, on every endpoint that has not switched the write
\* check off; saveglow naming an existing Glow is one of them.
C22_WriteNeedsGrant ==
    [][\A id \in Overwritten :
          put_access_check(req'.view) =>
              <<req'.user, "write">> \in db[object_class(req'.view)][id].acl
      ]_vars

\* C25: a GET and a PUT of an existing Installation succeed for every
\* caller, whatever grants the record has.
C25_InstallationOpen ==
    [][(/\ req'.view = "DetailInstallationView"
        /\ req'.method \in {"get", "put"}
        /\ req'.id \in DOMAIN db["Installation"])
       => resp'.code = 0
      ]_vars

---------------------------------------------------------------------------
\* SpecAggregate: sips whose day and user Pointers name the records of any
\* account, created, moved to another Day and deleted, one request at a
\* time.  No request writes to a Day directly.

\* a Sip body names any Day and any account, Sip.updateable_fields holding
\* 'day' and 'user'
SharedSipBodies ==
    {<<<<"amount", PyInt(1)>>, <<"day", Pointer("Day", d)>>,
       <<"user", Pointer("_User", u)>>>> : d \in Ids("Day"), u \in Ids("_User")}

CreateSharedSip ==
    \E user \in Accounts, data \in SharedSipBodies : Post("SipView", user, data)

\* an update that names the Day of the sip
MoveSip ==
    \E user \in Accounts, id \in Ids("Sip"), d \in Ids("Day") :
        Put("DetailSipView", user, id, <<<<"day", Pointer("Day", d)>>>>, {})

NextAggregate == CreateAccount \/ ListDays \/ CreateSharedSip \/ MoveSip \/ DeleteSip

SpecAggregate == Init /\ [][NextAggregate]_vars

\* C23: a Sip create or update changes the totalAmount of a Day, or the
\* volume or goalMetCount of a UserHealthStats, only when the requesting
\* principal holds a write grant on that Day or that UserHealthStats.
C23_AggregateNeedsGrant ==
    [][(/\ req'.view \in {"SipView", "DetailSipView"}
        /\ req'.method \in {"post", "put"})
       => /\ \A d \in DOMAIN db["Day"] :
                db'["Day"][d]["totalAmount"] # db["Day"][d]["totalAmount"]
                    => <<req'.user, "write">> \in db["Day"][d].acl
          /\ \A h \in DOMAIN db["UserHealthStats"] :
                (\E f \in {"volume", "goalMetCount"} :
                    db'["UserHealthStats"][h][f] # db["UserHealthStats"][h][f])
                    => <<req'.user, "write">> \in db["UserHealthStats"][h].acl
      ]_vars

\* C24: between requests, every Day has totalAmount equal to the sum of
\* the amounts of its persisted sips.
C24_EveryDayTotal ==
    \A d \in DOMAIN db["Day"] :
        db["Day"][d]["totalAmount"] = PyInt(SumAmount(SipsOfDay(d, db), db))

---------------------------------------------------------------------------
\* Logout, checked under SpecSession.

\* C26: a successful logout with a session key leaves the session expired
\* for good, and every later request carrying the key of an expired session
\* has no principal: the views that require login answer 'login required'
\* (code 206).  A later login or account creation draws another key.
C26_LoggedOutTokenRefused ==
    [][/\ \A k \in SessionKeys :
             LogsOut(k) => k \in DOMAIN loc' /\ loc'[k].expired
                           /\ loc'[k].session_expiry = -1
       /\ \A k \in DOMAIN loc :
             loc[k].expired =>
                /\ loc'[k].expired
                /\ (~Aged /\ req'.token = {k}) =>
                      /\ req'.user = NoUser
                      /\ LoginRequiredMixin(req'.view) => resp' = LoginRequired
                      /\ (Enters /\ "sessionToken" \in DOMAIN resp'.body) =>
                            resp'.body["sessionToken"] # k
      ]_vars

\* C26 witness: an account that logged out with a session key asked for its
\* own record with that key and was answered 'login required'.
C26_OwnRecordRefused ==
    /\ req.view = "DetailUserView"
    /\ req.token # {}
    /\ Given(req.token) \in DOMAIN loc
    /\ loc[Given(req.token)].session_expiry = -1
    /\ loc[Given(req.token)].userId = req.id
    /\ req.id \in DOMAIN db["_User"]
    /\ resp = LoginRequired

---------------------------------------------------------------------------
\* The _method key and the field data, checked under SpecPipeline.

\* C27: an update whose body carries _method, naming the arrival verb or
\* another one, is processed as the update of the body without that key
\* is: same response, same tables.
C27_MethodKeyIgnored ==
    [][\A m \in Override(req') :
          (/\ req'.view = "DetailBottleView"
           /\ authorized(req'.headers)
           /\ req'.user # NoUser
           /\ req'.id \in DOMAIN db["Bottle"]
           /\ lower(request_method(req'.verb, req'.body.json.items)) = "put")
          => \E o \in {DispatchDetail(
                          Request("put", req'.view, req'.user, req'.id,
                                  Without(req'.body.json.items, "_method"), {}),
                          db, acls)} :
                resp' = o.resp /\ db' = o.db /\ acls' = o.acls
      ]_vars

====
